---- MODULE Spec2Model ----
(***************************************************************************)
(* A model of the crates.io tarball ingestion pipeline:                    *)
(*   crates_io_tarball/src/lib.rs       process_tarball                    *)
(*   crates_io_tarball/src/manifest.rs  validate_manifest and helpers      *)
(*                                                                         *)
(* Text is modelled as a sequence of one-character strings where the code  *)
(* inspects characters (rust-version), paths as sequences of components    *)
(* (std::path::Path compares component-wise), file contents as records of  *)
(* what is written in them.  Sizes are counted in 512-byte tar blocks.     *)
(***************************************************************************)
EXTENDS Integers, Sequences, FiniteSets, TLC

\* ------------------------------------------------------------------ bounds

\* longest archive, in entries
MaxEntries == 3
\* largest decompression cap tried, in blocks
MaxUnpack == 5
\* most fields / dependencies written as `workspace = true` in one manifest
MaxInherited == 2
\* longest rust-version string enumerated exhaustively
MaxRustVersionLen == 4
\* longest archive of the calls made side by side, in entries
MaxCallEntries == 2
MaxStorageOps == 2
MaxConnections == 3
MaxVersions == 5
MaxPageSize == 2

\* ------------------------------------------------------------ option values

None == [some |-> FALSE]
Some(x) == [some |-> TRUE, val |-> x]

\* Result<(), cargo_toml::Error> of the manifest validators
ValidOk == [ok |-> TRUE, err |-> ""]
ValidErr(e) == [ok |-> FALSE, err |-> e]

\* ------------------------------------------------- semver::VersionReq::parse

Digits == {"0", "1", "2", "3", "4", "5", "6", "7", "8", "9"}
Letters == {"a", "b", "e", "t", "x", "X"}

is_ascii_digit(c) == c \in Digits

ParseFail == [ok |-> FALSE, rest |-> <<>>]
ParseOk(rest) == [ok |-> TRUE, rest |-> rest]

RECURSIVE trim_start(_)
trim_start(s) ==
    IF s # <<>> /\ Head(s) = " " THEN trim_start(Tail(s)) ELSE s

RECURSIVE DigitRun(_)
DigitRun(s) ==
    IF s # <<>> /\ is_ascii_digit(Head(s)) THEN 1 + DigitRun(Tail(s)) ELSE 0

\* a run of decimal digits, not empty, with no leading zero
numeric_identifier(s) ==
    LET len == DigitRun(s)
    IN  IF len = 0 THEN ParseFail
        ELSE IF len > 1 /\ s[1] = "0" THEN ParseFail
        ELSE ParseOk(SubSeq(s, len + 1, Len(s)))

wildcard(s) ==
    IF s # <<>> /\ Head(s) \in {"*", "x", "X"} THEN ParseOk(Tail(s)) ELSE ParseFail

\* the comparison operator in front of a comparator, if any
op(s) ==
    IF s = <<>> THEN s
    ELSE IF Head(s) \in {"=", "~", "^"} THEN Tail(s)
    ELSE IF Head(s) \in {">", "<"}
         THEN IF Len(s) > 1 /\ s[2] = "=" THEN SubSeq(s, 3, Len(s)) ELSE Tail(s)
    ELSE s

RECURSIVE IdentRun(_)
IdentRun(s) ==
    IF s # <<>> /\ (Head(s) \in Digits \cup Letters \cup {"-"})
    THEN 1 + IdentRun(Tail(s)) ELSE 0

\* dot-separated pre-release or build identifiers, none of them empty
RECURSIVE identifier(_)
identifier(s) ==
    LET len == IdentRun(s)
        rest == SubSeq(s, len + 1, Len(s))
    IN  IF len = 0 THEN ParseFail
        ELSE IF rest # <<>> /\ Head(rest) = "." THEN identifier(Tail(rest))
        ELSE ParseOk(rest)

\* after the patch number: an optional `-pre` and an optional `+build`
suffixes(s) ==
    LET pre == IF s # <<>> /\ Head(s) = "-" THEN identifier(Tail(s)) ELSE ParseOk(s)
    IN  IF ~pre.ok THEN ParseFail
        ELSE IF pre.rest # <<>> /\ Head(pre.rest) = "+" THEN identifier(Tail(pre.rest))
        ELSE pre

\* the patch part, after `major.minor`; minorWild: the minor part was a wildcard
patch_part(s, minorWild) ==
    IF s # <<>> /\ Head(s) = "."
    THEN IF wildcard(Tail(s)).ok THEN wildcard(Tail(s))
         ELSE IF minorWild THEN ParseFail
         ELSE LET p == numeric_identifier(Tail(s))
              IN  IF p.ok THEN suffixes(p.rest) ELSE ParseFail
    ELSE ParseOk(s)

\* the minor part and what follows it, after `major`
minor_part(s) ==
    IF s # <<>> /\ Head(s) = "."
    THEN IF wildcard(Tail(s)).ok THEN patch_part(wildcard(Tail(s)).rest, TRUE)
         ELSE LET m == numeric_identifier(Tail(s))
              IN  IF m.ok THEN patch_part(m.rest, FALSE) ELSE ParseFail
    ELSE ParseOk(s)

\* one comparator: [op] major[.minor[.patch[-pre][+build]]]
comparator(s) ==
    LET major == numeric_identifier(trim_start(op(s)))
    IN  IF ~major.ok THEN ParseFail
        ELSE LET r == minor_part(major.rest)
             IN  IF r.ok THEN ParseOk(trim_start(r.rest)) ELSE ParseFail

\* a comma-separated list of comparators
RECURSIVE version_req(_)
version_req(s) ==
    LET c == comparator(s)
    IN  IF ~c.ok THEN FALSE
        ELSE IF c.rest = <<>> THEN TRUE
        ELSE IF Head(c.rest) = "," THEN version_req(trim_start(Tail(c.rest)))
        ELSE FALSE

\* TRUE iff semver::VersionReq::parse(value) is Ok(_)
VersionReq_parse(value) ==
    LET text == trim_start(value)
    IN  IF wildcard(text).ok
        THEN trim_start(wildcard(text).rest) = <<>>
        ELSE version_req(text)

\* variant with a slip: the character filter is dropped, so any version
\* requirement passes
validate_rust_version_any_req(value) ==
    IF VersionReq_parse(value) THEN ValidOk
    ELSE ValidErr("invalid rust-version value")

validate_rust_version(value) ==
    IF /\ VersionReq_parse(value)
       /\ \A i \in 1..Len(value) : is_ascii_digit(value[i]) \/ value[i] = "."
    THEN ValidOk
    ELSE ValidErr("invalid rust-version value")

\* ------------------------------------------------ manifest text and parsing

\* keys of the [package] table that cargo lets a workspace supply
PackageKeys ==
    {"edition", "rust-version", "version", "authors", "description", "homepage",
     "documentation", "readme", "keywords", "categories", "exclude", "include",
     "license", "license-file", "repository", "publish"}

\* the keys whose Package field is an Option: absent unless written
OptionalKeys ==
    {"rust-version", "description", "homepage", "documentation", "license",
     "license-file", "repository"}

DepTables == {"dependencies", "dev-dependencies", "build-dependencies"}
DepNames == {"a", "b"}

\* cargo_toml::Inheritable<T>
Set(v) == [set |-> TRUE, v |-> v]
Inherited == [set |-> FALSE]

\* cargo_toml::OptionalFile
Flag(b) == [tag |-> "Flag", flag |-> b, path |-> ""]
PathFile(p) == [tag |-> "Path", flag |-> TRUE, path |-> p]

\* a field of type Inheritable<T>: `key.workspace = true`, the written value,
\* or the type's default
InheritableField(doc, key, value, default) ==
    IF key \in doc.inherit THEN Inherited
    ELSE IF key \in doc.present THEN Set(value)
    ELSE Set(default)

\* a field of type Option<Inheritable<T>>
OptionalField(doc, key, value) ==
    IF key \in doc.inherit THEN Some(Inherited)
    ELSE IF key \in doc.present THEN Some(Set(value))
    ELSE None

ReadmeValue(doc) ==
    IF doc.readme = "false" THEN Flag(FALSE)
    ELSE IF doc.readme = "true" THEN Flag(TRUE)
    ELSE PathFile(doc.readme)

\* cargo_toml::Package deserialized from the [package] (or [project]) table
PackageOf(doc) ==
    [name          |-> doc.name,
     edition       |-> InheritableField(doc, "edition", "2021", "2015"),
     rust_version  |-> OptionalField(doc, "rust-version", doc.rust_version),
     version       |-> InheritableField(doc, "version", doc.version, doc.version),
     authors       |-> InheritableField(doc, "authors", "written", "empty"),
     description   |-> OptionalField(doc, "description", "written"),
     homepage      |-> OptionalField(doc, "homepage", "written"),
     documentation |-> OptionalField(doc, "documentation", "written"),
     readme        |-> InheritableField(doc, "readme", ReadmeValue(doc), Flag(TRUE)),
     keywords      |-> InheritableField(doc, "keywords", "written", "empty"),
     categories    |-> InheritableField(doc, "categories", "written", "empty"),
     exclude       |-> InheritableField(doc, "exclude", "written", "empty"),
     include       |-> InheritableField(doc, "include", "written", "empty"),
     license       |-> OptionalField(doc, "license", "written"),
     license_file  |-> OptionalField(doc, "license-file", "written"),
     repository    |-> OptionalField(doc, "repository", doc.repository),
     publish       |-> InheritableField(doc, "publish", "written", "true")]

\* cargo_toml::DepsSet: name -> Dependency
DepsOf(doc, table) ==
    [n \in DOMAIN doc.deps[table] |->
        IF doc.deps[table][n] = "workspace" THEN "Inherited" ELSE "Simple"]

\* variant with a slip: the legacy [project] table is not taken for [package]
Manifest_from_str_package_only(contents) ==
    IF contents.fmt # "toml" THEN [ok |-> FALSE, err |-> "Parse"]
    ELSE [ok |-> TRUE,
          manifest |->
            [package |-> IF contents.toml.table = "package"
                         THEN Some(PackageOf(contents.toml)) ELSE None,
             dependencies       |-> DepsOf(contents.toml, "dependencies"),
             dev_dependencies   |-> DepsOf(contents.toml, "dev-dependencies"),
             build_dependencies |-> DepsOf(contents.toml, "build-dependencies")]]

\* variant with a slip: text that is no TOML document is taken for the base
\* manifest
Manifest_from_str_lenient(contents) ==
    [ok |-> TRUE,
     manifest |->
        [package |-> IF contents.fmt = "toml" /\ contents.toml.table \notin {"package", "project"}
                     THEN None ELSE Some(PackageOf(contents.toml)),
         dependencies       |-> DepsOf(contents.toml, "dependencies"),
         dev_dependencies   |-> DepsOf(contents.toml, "dev-dependencies"),
         build_dependencies |-> DepsOf(contents.toml, "build-dependencies")]]

\* Manifest::from_str: Result<Manifest, cargo_toml::Error>
Manifest_from_str(contents) ==
    IF contents.fmt # "toml" THEN [ok |-> FALSE, err |-> "Parse"]
    ELSE [ok |-> TRUE,
          manifest |->
            [package |-> IF contents.toml.table \in {"package", "project"}
                         THEN Some(PackageOf(contents.toml)) ELSE None,
             dependencies       |-> DepsOf(contents.toml, "dependencies"),
             dev_dependencies   |-> DepsOf(contents.toml, "dev-dependencies"),
             build_dependencies |-> DepsOf(contents.toml, "build-dependencies")]]

\* ------------------------------------------------------ manifest validation

\* impl<T> IsInherited for Inheritable<T>
Inheritable_is_inherited(x) == ~x.set

\* impl<T: IsInherited> IsInherited for Option<T>
Option_is_inherited(o) == IF o.some THEN Inheritable_is_inherited(o.val) ELSE FALSE

\* impl IsInherited for Dependency
Dependency_is_inherited(dep) == dep = "Inherited"

\* impl IsInherited for DepsSet
DepsSet_is_inherited(deps) == \E key \in DOMAIN deps : Dependency_is_inherited(deps[key])

\* Package::rust_version(): Option<&str>
Package_rust_version(package) ==
    IF package.rust_version.some THEN Some(package.rust_version.val.v) ELSE None

\* variant with a slip: license_file is left out of the test
PackageInherited_without_license_file(package) ==
    \/ Inheritable_is_inherited(package.edition)
    \/ Option_is_inherited(package.rust_version)
    \/ Inheritable_is_inherited(package.version)
    \/ Inheritable_is_inherited(package.authors)
    \/ Option_is_inherited(package.description)
    \/ Option_is_inherited(package.homepage)
    \/ Option_is_inherited(package.documentation)
    \/ Inheritable_is_inherited(package.readme)
    \/ Inheritable_is_inherited(package.keywords)
    \/ Inheritable_is_inherited(package.categories)
    \/ Inheritable_is_inherited(package.exclude)
    \/ Inheritable_is_inherited(package.include)
    \/ Option_is_inherited(package.license)
    \/ Option_is_inherited(package.repository)
    \/ Inheritable_is_inherited(package.publish)

\* the inheritance test of validate_package
PackageInherited(package) ==
    \/ Inheritable_is_inherited(package.edition)
    \/ Option_is_inherited(package.rust_version)
    \/ Inheritable_is_inherited(package.version)
    \/ Inheritable_is_inherited(package.authors)
    \/ Option_is_inherited(package.description)
    \/ Option_is_inherited(package.homepage)
    \/ Option_is_inherited(package.documentation)
    \/ Inheritable_is_inherited(package.readme)
    \/ Inheritable_is_inherited(package.keywords)
    \/ Inheritable_is_inherited(package.categories)
    \/ Inheritable_is_inherited(package.exclude)
    \/ Inheritable_is_inherited(package.include)
    \/ Option_is_inherited(package.license)
    \/ Option_is_inherited(package.license_file)
    \/ Option_is_inherited(package.repository)
    \/ Inheritable_is_inherited(package.publish)

\* variant with a slip: the rust-version of the package is not looked at
validate_package_inherited_only(package) ==
    IF PackageInherited(package) THEN ValidErr("InheritedUnknownValue") ELSE ValidOk

validate_package(package) ==
    IF PackageInherited(package) THEN ValidErr("InheritedUnknownValue")
    ELSE IF Package_rust_version(package).some
         THEN validate_rust_version(Package_rust_version(package).val)
         ELSE ValidOk

\* variant with a slip: the dependency sets are tested before the package table
validate_manifest_deps_first(manifest) ==
    IF \/ DepsSet_is_inherited(manifest.dependencies)
       \/ DepsSet_is_inherited(manifest.dev_dependencies)
       \/ DepsSet_is_inherited(manifest.build_dependencies)
    THEN ValidErr("InheritedUnknownValue")
    ELSE IF ~manifest.package.some THEN ValidErr("missing field package")
    ELSE validate_package(manifest.package.val)

validate_manifest(manifest) ==
    IF ~manifest.package.some THEN ValidErr("missing field package")
    ELSE LET r == validate_package(manifest.package.val)
         IN  IF ~r.ok THEN r
             ELSE IF \/ DepsSet_is_inherited(manifest.dependencies)
                     \/ DepsSet_is_inherited(manifest.dev_dependencies)
                     \/ DepsSet_is_inherited(manifest.build_dependencies)
                  THEN ValidErr("InheritedUnknownValue")
                  ELSE ValidOk

\* ------------------------------------------------------------ file contents

NoDeps == [t \in DepTables |-> <<>>]

\* the manifest of the crate's own tests: [package] name = "foo", version = "0.0.1"
BaseDoc ==
    [table |-> "package", name |-> "foo", version |-> "0.0.1", inherit |-> {},
     present |-> {}, rust_version |-> <<>>, readme |-> "true", repository |-> "",
     deps |-> NoDeps]

NoJson == [keys |-> {}, path_in_vcs |-> ""]

TomlText(doc) ==
    [utf8 |-> TRUE, fmt |-> "toml", toml |-> doc, json |-> NoJson, text |-> ""]
JsonText(obj) ==
    [utf8 |-> TRUE, fmt |-> "json", toml |-> BaseDoc, json |-> obj, text |-> ""]
\* text that is neither a TOML nor a JSON document
Garbage ==
    [utf8 |-> TRUE, fmt |-> "garbage", toml |-> BaseDoc, json |-> NoJson, text |-> ""]
\* bytes that are not UTF-8
NonUtf8 ==
    [utf8 |-> FALSE, fmt |-> "garbage", toml |-> BaseDoc, json |-> NoJson, text |-> ""]
\* the text of a readme file
Markdown(text) ==
    [utf8 |-> TRUE, fmt |-> "markdown", toml |-> BaseDoc, json |-> NoJson, text |-> text]

\* CargoVcsInfo::from_contents: serde_json into a struct whose only field,
\* path_in_vcs, has #[serde(default)]
CargoVcsInfo_from_contents(contents) ==
    IF contents.fmt = "json"
    THEN [ok |-> TRUE,
          info |-> [path_in_vcs |-> IF "path_in_vcs" \in contents.json.keys
                                    THEN contents.json.path_in_vcs ELSE ""]]
    ELSE [ok |-> FALSE]

\* variant with a slip: unwrap_or_default in the place of ok
ResultOk_or_default(r) == IF r.ok THEN Some(r.info) ELSE Some([path_in_vcs |-> ""])

\* Result::ok()
ResultOk(r) == IF r.ok THEN Some(r.info) ELSE None

\* -------------------------------------------------------------------- paths

\* Path::new(s): the components of s; one component for a string without
\* separators
Path_new(s) == IF s = "docs/README.md" THEN <<"docs", "README.md">> ELSE <<s>>
Path_join(base, name) == base \o <<name>>
\* variant with a slip: receiver and argument exchanged
Path_starts_with_swapped(path, base) ==
    /\ Len(path) <= Len(base)
    /\ SubSeq(base, 1, Len(path)) = path

\* Path::starts_with: whole components, not characters
Path_starts_with(path, base) ==
    /\ Len(base) <= Len(path)
    /\ SubSeq(path, 1, Len(base)) = base

\* ---------------------------------------------- the bounded, sequential reader

\* LimitErrorReader: a read of n more blocks succeeds while the total emitted
\* stays within the limit; otherwise the stream gives what is left and fails
LimitErrorReader_read(emitted, n, limit) ==
    IF emitted + n <= limit
    THEN [ok |-> TRUE, emitted |-> emitted + n]
    ELSE [ok |-> FALSE, emitted |-> limit]

\* offset of the header block of entry i; entry Len+1 is the end-of-archive block
RECURSIVE HeaderOffset(_, _)
HeaderOffset(archive, i) ==
    IF i <= 1 THEN 0
    ELSE HeaderOffset(archive, i - 1) + 1 + archive[i - 1].size

\* blocks of the stream that a complete walk consumes
DecompressedSize(archive) == HeaderOffset(archive, Len(archive) + 1) + 1

\* variant with a slip: hard links are forgotten
IsLink_symlink_only(entry_type) == entry_type = "Symlink"

\* EntryType::is_hard_link() || EntryType::is_symlink()
IsLink(entry_type) == entry_type \in {"Link", "Symlink"}

\* ----------------------------------------------------------- process_tarball

VARIABLES
    invocations,  \* the process_tarball calls in progress
    pkg_name,     \* argument: "{name}-{version}"
    tarball,      \* argument: the archive, a sequence of entries
    max_unpack,   \* argument: the decompression cap
    pc,           \* "scanning" inside the loop over entries, then "done"
    yielded,      \* entries the iterator has yielded so far
    emitted,      \* blocks the limit reader has emitted so far
    vcs_info,     \* local: Option<CargoVcsInfo>
    manifest,     \* local: Option<Manifest>
    result        \* the value returned

tarball_vars ==
    <<invocations, pkg_name, tarball, max_unpack, pc, yielded, emitted,
      vcs_info, manifest, result>>

\* the harness that applies validate_manifest to a manifest text
VARIABLES
    vm_pc,        \* "idle", "text", "parsed", "done"
    vm_text,      \* the content of a manifest file
    vm_manifest,  \* Option<Manifest>: the result of Manifest::from_str
    vm_result     \* the result of validate_manifest

manifest_vars == <<vm_pc, vm_text, vm_manifest, vm_result>>

\* the harness that applies the rust-version check to a string
VARIABLES
    rv_pc,        \* "idle", "input", "done"
    rv_value,     \* Option<string>: the rust-version of the package
    rv_result     \* the result of validate_package

rust_version_vars == <<rv_pc, rv_value, rv_result>>

\* one call of render_pkg_readme
VARIABLES
    rd_pc,        \* "idle", "called", "done"
    rd_archive,   \* argument: the archive, a sequence of entries
    rd_pkg_name,  \* argument: "{name}-{version}"
    rd_result     \* the value returned, or the panic

render_vars == <<rd_pc, rd_archive, rd_pkg_name, rd_result>>

\* one Storage and the calls made on it
VARIABLES
    st_backend,   \* StorageBackend: "InMemory" or "S3"
    st_store,     \* the objects of `store`: location -> bytes
    st_index,     \* the objects of the index bucket of the S3 backend
    st_log        \* the calls made so far, each with the objects it found

storage_vars == <<st_backend, st_store, st_index, st_log>>

\* one DieselPool, its creation and the calls of get on it
VARIABLES
    pl_variant,      \* "Pool" or "BackgroundJobPool"
    pl_db_up,        \* the database accepts connections
    pl_connections,  \* r2d2 State::connections
    pl_idle,         \* r2d2 State::idle_connections
    pl_pc,           \* where the caller is in new or in get
    pl_call          \* the call in progress or just returned

pool_vars == <<pl_variant, pl_db_up, pl_connections, pl_idle, pl_pc, pl_call>>

\* one run of the render-readmes command
VARIABLES
    rn_page_size,      \* opts.page_size
    rn_total,          \* total_versions; the version ids are 1..rn_total
    rn_pc,             \* where run is: "paging", "recording", "spawning", "joining", "done"
    rn_page,           \* page_num of the page in progress
    rn_next,           \* the next version of the page to record and spawn
    rn_tasks,          \* the handles of the page: the versions of its threads
    rn_joined,         \* how many handles of the page were joined
    rn_recorded,       \* the versions with a row in readme_renderings
    rn_threads,        \* per version: "none", "running", "ok", "err", "panic"
    rn_logged,         \* the versions whose failure was printed
    rn_record_failed,  \* record_readme_rendering returned an error
    rn_result          \* what run returned: "Pending", "Ok", "Err" or "Panic"

run_vars == <<rn_page_size, rn_total, rn_pc, rn_page, rn_next, rn_tasks, rn_joined,
              rn_recorded, rn_threads, rn_logged, rn_record_failed, rn_result>>

service_vars == <<storage_vars, pool_vars, run_vars>>

vars == <<tarball_vars, manifest_vars, rust_version_vars, render_vars, service_vars>>

Pending == [kind |-> "Pending", path |-> <<>>, err |-> "", manifest |-> None,
            vcs_info |-> None]
\* Err(TarballError::kind(..)): path for InvalidPath and UnexpectedSymlink, err
\* for the wrapped io or cargo_toml error
Err(kind, path, err) ==
    [kind |-> kind, path |-> path, err |-> err, manifest |-> None, vcs_info |-> None]
\* variant with a slip: the VCS info is left out of the value returned
Ok_without_vcs_info(m, v) ==
    [kind |-> "Ok", path |-> <<>>, err |-> "", manifest |-> Some(m), vcs_info |-> None]

\* Ok(TarballInfo { manifest, vcs_info })
Ok(m, v) == [kind |-> "Ok", path |-> <<>>, err |-> "", manifest |-> Some(m), vcs_info |-> v]

vcs_info_path(p) == Path_join(Path_new(pkg_name[p]), ".cargo_vcs_info.json")
manifest_path(p) == Path_join(Path_new(pkg_name[p]), "Cargo.toml")
manifest_path_lower(p) == Path_join(Path_new(pkg_name[p]), "cargo.toml")

\* the entry the iterator yields next, and the reads that fetch it
NextEntry(p) == tarball[p][yielded[p] + 1]
AtEnd(p) == yielded[p] = Len(tarball[p])
\* the iterator skips what is left of the previous entry and reads one header
HeaderRead(p) ==
    LimitErrorReader_read(emitted[p],
        HeaderOffset(tarball[p], yielded[p] + 1) + 1 - emitted[p], max_unpack[p])
\* entry.read_to_string: the whole content of the entry just yielded
ContentRead(p) ==
    LimitErrorReader_read(HeaderRead(p).emitted, NextEntry(p).size, max_unpack[p])

\* return from process_tarball with r
Return(p, r, read) ==
    /\ pc' = [pc EXCEPT ![p] = "done"]
    /\ result' = [result EXCEPT ![p] = r]
    /\ emitted' = [emitted EXCEPT ![p] = read]
    /\ UNCHANGED <<invocations, pkg_name, tarball, max_unpack, yielded, vcs_info, manifest>>
    /\ UNCHANGED <<manifest_vars, rust_version_vars, render_vars, service_vars>>

\* go round the loop
Continue(p, read) ==
    /\ yielded' = [yielded EXCEPT ![p] = @ + 1]
    /\ emitted' = [emitted EXCEPT ![p] = read]
    /\ UNCHANGED <<invocations, pkg_name, tarball, max_unpack, pc, result>>
    /\ UNCHANGED <<manifest_vars, rust_version_vars, render_vars, service_vars>>

\* the path test of an entry
PathAccepted(p, entry) == Path_starts_with(entry.path, Path_new(pkg_name[p]))

\* variant with a slip: a manifest is recognised by its file name alone
IsManifestPath_by_file_name(p, path) ==
    path # <<>> /\ path[Len(path)] \in {"Cargo.toml", "cargo.toml"}

\* variant with a slip: the first VCS info found is kept
StoreVcsInfo_keep_first(old, parsed) == IF old.some THEN old ELSE ResultOk(parsed)

\* variant with a slip: the first manifest found is kept
StoreManifest_keep_first(old, new) == IF old.some THEN old ELSE Some(new)

\* variant with a slip: the lowercase name of the manifest is forgotten
IsManifestPath_exact_case(p, path) == path = manifest_path(p)

\* the two tests of the dispatch on the entry's path
IsVcsInfoPath(p, path) == path = vcs_info_path(p)
IsManifestPath(p, path) == path = manifest_path(p) \/ path = manifest_path_lower(p)

\* `vcs_info = CargoVcsInfo::from_contents(&contents).ok()`
StoreVcsInfo(old, parsed) == ResultOk(parsed)

\* `manifest = Some({ .. manifest })`
StoreManifest(old, new) == Some(new)

\* the iterator fails to produce the next entry (or the end of the archive)
EntryFails(p) ==
    /\ pc[p] = "scanning"
    /\ ~HeaderRead(p).ok
    /\ Return(p, Err("Malformed", <<>>, "limit"), HeaderRead(p).emitted)

RejectPath(p) ==
    /\ pc[p] = "scanning" /\ HeaderRead(p).ok /\ ~AtEnd(p)
    /\ ~PathAccepted(p, NextEntry(p))
    /\ Return(p, Err("InvalidPath", NextEntry(p).path, ""), HeaderRead(p).emitted)

\* variant with a slip: a link entry is passed over and the walk goes on
RejectLink_goes_on(p) ==
    /\ pc[p] = "scanning" /\ HeaderRead(p).ok /\ ~AtEnd(p)
    /\ PathAccepted(p, NextEntry(p))
    /\ IsLink(NextEntry(p).entry_type)
    /\ Continue(p, HeaderRead(p).emitted)
    /\ UNCHANGED <<vcs_info, manifest>>

\* variant with a slip: the link test does not wait for the path test
RejectLink_before_path(p) ==
    /\ pc[p] = "scanning" /\ HeaderRead(p).ok /\ ~AtEnd(p)
    /\ IsLink(NextEntry(p).entry_type)
    /\ Return(p, Err("UnexpectedSymlink", NextEntry(p).path, ""), HeaderRead(p).emitted)

RejectLink(p) ==
    /\ pc[p] = "scanning" /\ HeaderRead(p).ok /\ ~AtEnd(p)
    /\ PathAccepted(p, NextEntry(p))
    /\ IsLink(NextEntry(p).entry_type)
    /\ Return(p, Err("UnexpectedSymlink", NextEntry(p).path, ""), HeaderRead(p).emitted)

\* the entry passed both tests and is handed to the dispatch on its path
Dispatched(p) ==
    /\ pc[p] = "scanning" /\ HeaderRead(p).ok /\ ~AtEnd(p)
    /\ PathAccepted(p, NextEntry(p))
    /\ ~IsLink(NextEntry(p).entry_type)

\* variant with a slip: vcs_info is a static that the calls in progress share
ReadVcsInfo_shared(p) ==
    /\ Dispatched(p)
    /\ IsVcsInfoPath(p, NextEntry(p).path)
    /\ IF ~ContentRead(p).ok
       THEN Return(p, Err("IO", <<>>, "limit"), ContentRead(p).emitted)
       ELSE IF ~NextEntry(p).contents.utf8
       THEN Return(p, Err("IO", <<>>, "invalid utf-8"), ContentRead(p).emitted)
       ELSE /\ vcs_info' = [q \in DOMAIN vcs_info |->
                    IF q = p \/ pc[q] = "scanning"
                    THEN StoreVcsInfo(vcs_info[q],
                                      CargoVcsInfo_from_contents(NextEntry(p).contents))
                    ELSE vcs_info[q]]
            /\ Continue(p, ContentRead(p).emitted)
            /\ UNCHANGED manifest

ReadVcsInfo(p) ==
    /\ Dispatched(p)
    /\ IsVcsInfoPath(p, NextEntry(p).path)
    /\ IF ~ContentRead(p).ok
       THEN Return(p, Err("IO", <<>>, "limit"), ContentRead(p).emitted)
       ELSE IF ~NextEntry(p).contents.utf8
       THEN Return(p, Err("IO", <<>>, "invalid utf-8"), ContentRead(p).emitted)
       ELSE /\ vcs_info' = [vcs_info EXCEPT ![p] =
                    StoreVcsInfo(@, CargoVcsInfo_from_contents(NextEntry(p).contents))]
            /\ Continue(p, ContentRead(p).emitted)
            /\ UNCHANGED manifest

ReadManifest(p) ==
    /\ Dispatched(p)
    /\ ~IsVcsInfoPath(p, NextEntry(p).path)
    /\ IsManifestPath(p, NextEntry(p).path)
    /\ LET parsed == Manifest_from_str(NextEntry(p).contents)
       IN  IF ~ContentRead(p).ok
           THEN Return(p, Err("IO", <<>>, "limit"), ContentRead(p).emitted)
           ELSE IF ~NextEntry(p).contents.utf8
           THEN Return(p, Err("IO", <<>>, "invalid utf-8"), ContentRead(p).emitted)
           ELSE IF ~parsed.ok
           THEN Return(p, Err("InvalidManifest", <<>>, parsed.err), ContentRead(p).emitted)
           ELSE IF ~validate_manifest(parsed.manifest).ok
           THEN Return(p, Err("InvalidManifest", <<>>, validate_manifest(parsed.manifest).err),
                       ContentRead(p).emitted)
           ELSE /\ manifest' = [manifest EXCEPT ![p] = StoreManifest(@, parsed.manifest)]
                /\ Continue(p, ContentRead(p).emitted)
                /\ UNCHANGED vcs_info

\* any other entry: its content is left unread
SkipEntry(p) ==
    /\ Dispatched(p)
    /\ ~IsVcsInfoPath(p, NextEntry(p).path)
    /\ ~IsManifestPath(p, NextEntry(p).path)
    /\ Continue(p, HeaderRead(p).emitted)
    /\ UNCHANGED <<vcs_info, manifest>>

\* the iterator is exhausted: the loop ends and the function returns
Finish(p) ==
    /\ pc[p] = "scanning" /\ HeaderRead(p).ok /\ AtEnd(p)
    /\ IF manifest[p].some
       THEN Return(p, Ok(manifest[p].val, vcs_info[p]), HeaderRead(p).emitted)
       ELSE Return(p, Err("MissingManifest", <<>>, ""), HeaderRead(p).emitted)

\* variant with a slip: the locals are statics, left as the call before left them
Call_keeps_locals(p, q) ==
    /\ p \notin invocations /\ q \in invocations
    /\ \A r \in invocations : pc[r] = "done"
    /\ invocations' = invocations \cup {p}
    /\ pkg_name' = pkg_name @@ (p :> pkg_name[q])
    /\ tarball' = tarball @@ (p :> tarball[q])
    /\ max_unpack' = max_unpack @@ (p :> max_unpack[q])
    /\ pc' = pc @@ (p :> "scanning")
    /\ yielded' = yielded @@ (p :> 0)
    /\ emitted' = emitted @@ (p :> 0)
    /\ vcs_info' = vcs_info @@ (p :> vcs_info[p - 1])
    /\ manifest' = manifest @@ (p :> manifest[p - 1])
    /\ result' = result @@ (p :> Pending)
    /\ UNCHANGED <<manifest_vars, rust_version_vars, render_vars, service_vars>>

\* process_tarball is called once more, as call p, with the arguments of the
\* earlier call q, after the calls before it have returned: the state of call p
\* at the entry of the loop
Call(p, q) ==
    /\ p \notin invocations /\ q \in invocations
    /\ \A r \in invocations : pc[r] = "done"
    /\ invocations' = invocations \cup {p}
    /\ pkg_name' = pkg_name @@ (p :> pkg_name[q])
    /\ tarball' = tarball @@ (p :> tarball[q])
    /\ max_unpack' = max_unpack @@ (p :> max_unpack[q])
    /\ pc' = pc @@ (p :> "scanning")
    /\ yielded' = yielded @@ (p :> 0)
    /\ emitted' = emitted @@ (p :> 0)
    /\ vcs_info' = vcs_info @@ (p :> None)
    /\ manifest' = manifest @@ (p :> None)
    /\ result' = result @@ (p :> Pending)
    /\ UNCHANGED <<manifest_vars, rust_version_vars, render_vars, service_vars>>

\* --------------------------------------- validate_manifest on its own inputs

ParseManifest ==
    /\ vm_pc = "text"
    /\ LET parsed == Manifest_from_str(vm_text)
       IN  IF parsed.ok
           THEN /\ vm_manifest' = Some(parsed.manifest)
                /\ vm_pc' = "parsed"
                /\ UNCHANGED vm_result
           ELSE /\ vm_result' = ValidErr(parsed.err)
                /\ vm_pc' = "done"
                /\ UNCHANGED vm_manifest
    /\ UNCHANGED vm_text

ValidateManifest ==
    /\ vm_pc = "parsed"
    /\ vm_result' = validate_manifest(vm_manifest.val)
    /\ vm_pc' = "done"
    /\ UNCHANGED <<vm_text, vm_manifest>>

\* ----------------------------------- the rust-version check on its own inputs

\* a package that differs from the base package in its rust-version only
PackageWithRustVersion(value) ==
    IF value.some
    THEN PackageOf([BaseDoc EXCEPT !.present = {"rust-version"}, !.rust_version = value.val])
    ELSE PackageOf(BaseDoc)

ValidateRustVersion ==
    /\ rv_pc = "input"
    /\ rv_result' = validate_package(PackageWithRustVersion(rv_value))
    /\ rv_pc' = "done"
    /\ UNCHANGED rv_value

\* --------------------------------------------------------- render_pkg_readme

RenderPending == [kind |-> "Pending", context |-> "", html |-> None]
\* Err(anyhow::Error) with the context attached by render_pkg_readme
RenderErr(context) == [kind |-> "Err", context |-> context, html |-> None]
\* Ok(String): the empty string, or the output of text_to_html
RenderOk(html) == [kind |-> "Ok", context |-> "", html |-> html]
\* expect/unwrap of cargo_toml on a manifest that is not resolved
RenderPanic(context) == [kind |-> "Panic", context |-> context, html |-> None]

\* text_to_html(contents, readme_path, repository, None): the page made of the
\* text, with relative links resolved against the readme's place in the
\* repository
text_to_html(contents, readme_path, repository) ==
    [text |-> contents.text, path |-> readme_path, base_url |-> repository]

\* OptionalFile::is_some and OptionalFile::as_path
OptionalFile_is_some(file) == file.tag = "Path" \/ file.flag
OptionalFile_as_path(file) == IF file.tag = "Path" THEN Some(Path_new(file.path)) ELSE None

\* find_file_by_path on the iterator `entries`, of which `next` entries are
\* consumed: the first entry left with that path, and its content
find_file_by_path(archive, next, path) ==
    LET found == {i \in (next + 1)..Len(archive) : archive[i].path = path}
    IN  IF found = {}
        THEN [ok |-> FALSE, next |-> Len(archive), contents |-> Garbage]
        ELSE LET i == CHOOSE j \in found : \A k \in found : j <= k
             IN  [ok |-> archive[i].contents.utf8, next |-> i,
                  contents |-> archive[i].contents]

\* the second block of render_pkg_readme: the readme of a parsed manifest
render_readme_of(archive, next, name, parsed) ==
    IF ~parsed.package.some THEN RenderPanic("package")
    ELSE IF ~parsed.package.val.readme.set THEN RenderPanic("readme")
    ELSE LET readme == parsed.package.val.readme.v
             readme_path == IF OptionalFile_as_path(readme).some
                            THEN OptionalFile_as_path(readme).val
                            ELSE Path_new("README.md")
             file == find_file_by_path(archive, next, Path_new(name) \o readme_path)
             repository == parsed.package.val.repository
         IN  IF ~OptionalFile_is_some(readme) THEN RenderOk(None)
             ELSE IF ~file.ok THEN RenderErr("Failed to read readme file")
             ELSE IF repository.some /\ ~repository.val.set THEN RenderPanic("repository")
             ELSE RenderOk(Some(text_to_html(file.contents, readme_path,
                        IF repository.some THEN Some(repository.val.v) ELSE None)))

render_pkg_readme(archive, name) ==
    LET file == find_file_by_path(archive, 0, Path_join(Path_new(name), "Cargo.toml"))
        parsed == Manifest_from_str(file.contents)
    IN  IF ~file.ok THEN RenderErr("Failed to read Cargo.toml file")
        ELSE IF ~parsed.ok THEN RenderErr("Failed to parse manifest file")
        ELSE render_readme_of(archive, file.next, name, parsed.manifest)

RenderPkgReadme ==
    /\ rd_pc = "called"
    /\ rd_result' = render_pkg_readme(rd_archive, rd_pkg_name)
    /\ rd_pc' = "done"
    /\ UNCHANGED <<rd_archive, rd_pkg_name>>

\* ----------------------------------------------------------------- DieselPool

\* PoolState
PoolState(connections, idle_connections) ==
    [connections |-> connections, idle_connections |-> idle_connections]

\* DieselPool::state on the Pool and BackgroundJobPool variants
state == PoolState(pl_connections, pl_idle)

\* variant with a slip: health is read from the idle connections
is_healthy_by_idle(pool_state) == pool_state.idle_connections > 0

\* DieselPool::is_healthy
is_healthy(pool_state) == pool_state.connections > 0

\* wait_until_healthy: the match on the result of pool.get_timeout(timeout)
wait_until_healthy(got_connection, pool_state) ==
    IF got_connection THEN "Ok"
    ELSE IF ~is_healthy(pool_state) THEN "UnhealthyPool"
    ELSE "R2D2"

\* variant with a slip: every error of the health wait is returned
DieselPool_new_strict(waited) == IF waited = "Ok" THEN "Ok" ELSE waited

\* DieselPool::new: the match on the result of wait_until_healthy
DieselPool_new(waited) ==
    IF waited \in {"Ok", "UnhealthyPool"} THEN "Ok" ELSE waited

\* a call of new or get: whether the first attempt got no connection, the
\* connections is_healthy saw, whether the blocking pool.get() was entered
NoCall ==
    [fn |-> "none", no_connection |-> FALSE, checked |-> FALSE, observed |-> 0,
     blocked |-> FALSE, result |-> "Pending"]

PoolFrame ==
    UNCHANGED <<tarball_vars, manifest_vars, rust_version_vars, render_vars, storage_vars,
                run_vars>>

\* pool.get_timeout(5 s) of the health wait returns a connection, which is
\* dropped at once: new returns Ok(pool)
NewGotConnection ==
    /\ pl_pc = "new_wait"
    /\ pl_idle > 0
    /\ pl_call' = [pl_call EXCEPT !.result = DieselPool_new(wait_until_healthy(TRUE, state))]
    /\ pl_pc' = "ready"
    /\ UNCHANGED <<pl_variant, pl_db_up, pl_connections, pl_idle>>
    /\ PoolFrame

\* pool.get_timeout(5 s) of the health wait ends with no connection
NewTimedOut ==
    /\ pl_pc = "new_wait"
    /\ pl_idle = 0
    /\ pl_call' = [pl_call EXCEPT !.no_connection = TRUE]
    /\ pl_pc' = "new_check"
    /\ UNCHANGED <<pl_variant, pl_db_up, pl_connections, pl_idle>>
    /\ PoolFrame

\* the guard `!self.is_healthy()` of the health wait, and the return of new
NewCheckHealth ==
    /\ pl_pc = "new_check"
    /\ pl_call' = [pl_call EXCEPT !.checked = TRUE, !.observed = pl_connections,
                                  !.result = DieselPool_new(wait_until_healthy(FALSE, state))]
    /\ pl_pc' = "ready"
    /\ UNCHANGED <<pl_variant, pl_db_up, pl_connections, pl_idle>>
    /\ PoolFrame

\* get on the Pool variant: pool.try_get() returns a connection
GetTryGot ==
    /\ pl_pc = "ready" /\ pl_variant = "Pool"
    /\ pl_call.fn = "get" \/ pl_call.result = "Ok"
    /\ pl_idle > 0
    /\ pl_idle' = pl_idle - 1
    /\ pl_call' = [NoCall EXCEPT !.fn = "get", !.result = "Ok"]
    /\ UNCHANGED <<pl_variant, pl_db_up, pl_connections, pl_pc>>
    /\ PoolFrame

\* get on the Pool variant: pool.try_get() returns None
GetTryMissed ==
    /\ pl_pc = "ready" /\ pl_variant = "Pool"
    /\ pl_call.fn = "get" \/ pl_call.result = "Ok"
    /\ pl_idle = 0
    /\ pl_call' = [NoCall EXCEPT !.fn = "get", !.no_connection = TRUE]
    /\ pl_pc' = "get_check"
    /\ UNCHANGED <<pl_variant, pl_db_up, pl_connections, pl_idle>>
    /\ PoolFrame

\* `else if !self.is_healthy()`: UnhealthyPool at once, or on to pool.get()
GetCheckHealth ==
    /\ pl_pc = "get_check"
    /\ IF ~is_healthy(state)
       THEN /\ pl_call' = [pl_call EXCEPT !.checked = TRUE, !.observed = pl_connections,
                                          !.result = "UnhealthyPool"]
            /\ pl_pc' = "ready"
       ELSE /\ pl_call' = [pl_call EXCEPT !.checked = TRUE, !.observed = pl_connections,
                                          !.blocked = TRUE]
            /\ pl_pc' = "get_blocking"
    /\ UNCHANGED <<pl_variant, pl_db_up, pl_connections, pl_idle>>
    /\ PoolFrame

\* get on the BackgroundJobPool variant: straight to pool.get()
GetBackground ==
    /\ pl_pc = "ready" /\ pl_variant = "BackgroundJobPool"
    /\ pl_call' = [NoCall EXCEPT !.fn = "get", !.blocked = TRUE]
    /\ pl_pc' = "get_blocking"
    /\ UNCHANGED <<pl_variant, pl_db_up, pl_connections, pl_idle>>
    /\ PoolFrame

\* the blocking pool.get() returns a connection
GetBlockingGot ==
    /\ pl_pc = "get_blocking"
    /\ pl_idle > 0
    /\ pl_idle' = pl_idle - 1
    /\ pl_call' = [pl_call EXCEPT !.result = "Ok"]
    /\ pl_pc' = "ready"
    /\ UNCHANGED <<pl_variant, pl_db_up, pl_connections>>
    /\ PoolFrame

\* the blocking pool.get() gives up after the connection timeout
GetBlockingTimedOut ==
    /\ pl_pc = "get_blocking"
    /\ pl_idle = 0
    /\ pl_call' = [pl_call EXCEPT !.result = "R2D2"]
    /\ pl_pc' = "ready"
    /\ UNCHANGED <<pl_variant, pl_db_up, pl_connections, pl_idle>>
    /\ PoolFrame

\* the pool's own thread opens a connection
ConnectionEstablished ==
    /\ pl_db_up
    /\ pl_connections < MaxConnections
    /\ pl_connections' = pl_connections + 1
    /\ pl_idle' = pl_idle + 1
    /\ UNCHANGED <<pl_variant, pl_db_up, pl_pc, pl_call>>
    /\ PoolFrame

\* a connection breaks and is dropped from the pool, idle or in use
ConnectionLost ==
    /\ pl_connections > 0
    /\ pl_connections' = pl_connections - 1
    /\ \/ pl_idle > 0 /\ pl_idle' = pl_idle - 1
       \/ pl_idle < pl_connections /\ pl_idle' = pl_idle
    /\ UNCHANGED <<pl_variant, pl_db_up, pl_pc, pl_call>>
    /\ PoolFrame

\* a connection in use, here or in another thread, is given back
ConnectionReturned ==
    /\ pl_idle < pl_connections
    /\ pl_idle' = pl_idle + 1
    /\ UNCHANGED <<pl_variant, pl_db_up, pl_connections, pl_pc, pl_call>>
    /\ PoolFrame

\* another thread takes a connection
ConnectionTaken ==
    /\ pl_idle > 0
    /\ pl_idle' = pl_idle - 1
    /\ UNCHANGED <<pl_variant, pl_db_up, pl_connections, pl_pc, pl_call>>
    /\ PoolFrame

\* --------------------------------------------------------- render-readmes run

\* version_ids.chunks(page_size): the versions of page k, counted from 0
Chunk(k) == {v \in 1..rn_total : (v - 1) \div rn_page_size = k}
\* the page a version is in
PageOf(v) == (v - 1) \div rn_page_size
\* the number of chunks: total_pages
total_pages ==
    IF rn_total % rn_page_size = 0
    THEN rn_total \div rn_page_size
    ELSE rn_total \div rn_page_size + 1

RunFrame ==
    UNCHANGED <<tarball_vars, manifest_vars, rust_version_vars, render_vars, storage_vars,
                pool_vars>>

\* the for loop over the pages ends: run returns Ok(())
RunReturnsOk ==
    /\ rn_pc = "paging"
    /\ rn_page = total_pages
    /\ rn_pc' = "done"
    /\ rn_result' = "Ok"
    /\ UNCHANGED <<rn_page_size, rn_total, rn_page, rn_next, rn_tasks, rn_joined,
                   rn_recorded, rn_threads, rn_logged, rn_record_failed>>
    /\ RunFrame

\* the versions of the next page are loaded, and `tasks` is made
LoadPage ==
    /\ rn_pc = "paging"
    /\ rn_page < total_pages
    /\ rn_pc' = "recording"
    /\ rn_next' = rn_page * rn_page_size + 1
    /\ rn_tasks' = <<>>
    /\ rn_joined' = 0
    /\ UNCHANGED <<rn_page_size, rn_total, rn_page, rn_recorded, rn_threads, rn_logged,
                   rn_record_failed, rn_result>>
    /\ RunFrame

\* the query of the page fails: expect("error loading versions") panics
LoadPageFails ==
    /\ rn_pc = "paging"
    /\ rn_page < total_pages
    /\ rn_pc' = "done"
    /\ rn_result' = "Panic"
    /\ UNCHANGED <<rn_page_size, rn_total, rn_page, rn_next, rn_tasks, rn_joined,
                   rn_recorded, rn_threads, rn_logged, rn_record_failed>>
    /\ RunFrame

\* Version::record_readme_rendering(version.id, conn) succeeds
RecordRendering ==
    /\ rn_pc = "recording"
    /\ rn_recorded' = rn_recorded \cup {rn_next}
    /\ rn_pc' = "spawning"
    /\ UNCHANGED <<rn_page_size, rn_total, rn_page, rn_next, rn_tasks, rn_joined,
                   rn_threads, rn_logged, rn_record_failed, rn_result>>
    /\ RunFrame

\* Version::record_readme_rendering fails: `?` returns the error from run
RecordRenderingFails ==
    /\ rn_pc = "recording"
    /\ rn_record_failed' = TRUE
    /\ rn_pc' = "done"
    /\ rn_result' = "Err"
    /\ UNCHANGED <<rn_page_size, rn_total, rn_page, rn_next, rn_tasks, rn_joined,
                   rn_recorded, rn_threads, rn_logged>>
    /\ RunFrame

\* thread::spawn for the version just recorded, and tasks.push(handle); after
\* the last version of the page the loop over the handles begins
SpawnThread ==
    /\ rn_pc = "spawning"
    /\ rn_threads' = [rn_threads EXCEPT ![rn_next] = "running"]
    /\ rn_tasks' = Append(rn_tasks, rn_next)
    /\ rn_next' = rn_next + 1
    /\ rn_pc' = IF rn_next + 1 \in Chunk(rn_page) THEN "recording" ELSE "joining"
    /\ UNCHANGED <<rn_page_size, rn_total, rn_page, rn_joined, rn_recorded, rn_logged,
                   rn_record_failed, rn_result>>
    /\ RunFrame

\* a render thread ends: Ok(()), an error of get_readme or upload_readme, or a
\* panic
ThreadEnds(v, outcome) ==
    /\ rn_threads[v] = "running"
    /\ rn_threads' = [rn_threads EXCEPT ![v] = outcome]
    /\ UNCHANGED <<rn_page_size, rn_total, rn_pc, rn_page, rn_next, rn_tasks, rn_joined,
                   rn_recorded, rn_logged, rn_record_failed, rn_result>>
    /\ RunFrame

\* variant with a slip: the error of a joined thread is returned from run
JoinHandle_returning_errors ==
    /\ rn_pc = "joining"
    /\ rn_joined < Len(rn_tasks)
    /\ rn_threads[rn_tasks[rn_joined + 1]] # "running"
    /\ rn_joined' = rn_joined + 1
    /\ IF rn_threads[rn_tasks[rn_joined + 1]] \in {"err", "panic"}
       THEN rn_pc' = "done" /\ rn_result' = "Err"
       ELSE UNCHANGED <<rn_pc, rn_result>>
    /\ UNCHANGED <<rn_page_size, rn_total, rn_page, rn_next, rn_tasks, rn_recorded,
                   rn_threads, rn_logged, rn_record_failed>>
    /\ RunFrame

\* handle.join() of the next handle returns once its thread has ended; an
\* error and a panic are printed
JoinHandle ==
    /\ rn_pc = "joining"
    /\ rn_joined < Len(rn_tasks)
    /\ rn_threads[rn_tasks[rn_joined + 1]] # "running"
    /\ rn_joined' = rn_joined + 1
    /\ rn_logged' = IF rn_threads[rn_tasks[rn_joined + 1]] \in {"err", "panic"}
                    THEN rn_logged \cup {rn_tasks[rn_joined + 1]}
                    ELSE rn_logged
    /\ UNCHANGED <<rn_page_size, rn_total, rn_pc, rn_page, rn_next, rn_tasks,
                   rn_recorded, rn_threads, rn_record_failed, rn_result>>
    /\ RunFrame

\* variant with a slip: the handles are not waited for
PageJoined_without_waiting == TRUE

\* the loop over the handles of the page is over
PageJoined == rn_joined = Len(rn_tasks)

\* on to the next page
NextPage ==
    /\ rn_pc = "joining"
    /\ PageJoined
    /\ rn_pc' = "paging"
    /\ rn_page' = rn_page + 1
    /\ UNCHANGED <<rn_page_size, rn_total, rn_next, rn_tasks, rn_joined, rn_recorded,
                   rn_threads, rn_logged, rn_record_failed, rn_result>>
    /\ RunFrame

\* -------------------------------------------------------------------- Storage

PREFIX_CRATES == "crates"
PREFIX_READMES == "readmes"

NoObjects == [q \in {} |-> ""]

\* object_store::Path: the directory segments and the file name of a location
ObjectPath(dir, name, version, ext) ==
    [dir |-> dir, file |-> [name |-> name, version |-> version, ext |-> ext]]

\* "crates/{name}/{name}-{version}.crate"
crate_file_path(name, version) ==
    ObjectPath(<<PREFIX_CRATES, name>>, name, version, "crate")
\* "readmes/{name}/{name}-{version}.html"
readme_path(name, version) ==
    ObjectPath(<<PREFIX_READMES, name>>, name, version, "html")

\* the place of a crate's file in the index: "3/f/foo" for foo
relative_index_file_for_url(name) ==
    ObjectPath(CASE name = "foo" -> <<"3", "f">>
                 [] name = "bar" -> <<"3", "b">>
                 [] name = "foobar" -> <<"fo", "ob">>
                 [] OTHER -> <<"1">>,
               name, "", "")

\* the text b begins with the text a, for the crate names of the model
StringStartsWith(b, a) == a = b \/ <<a, b>> = <<"foo", "foobar">>

\* variant with a slip: the last segment of the prefix is matched as text
Path_prefix_matches_as_text(location, prefix) ==
    /\ prefix # <<>>
    /\ Len(prefix) <= Len(location.dir)
    /\ SubSeq(location.dir, 1, Len(prefix) - 1) = SubSeq(prefix, 1, Len(prefix) - 1)
    /\ StringStartsWith(location.dir[Len(prefix)], prefix[Len(prefix)])

\* the prefix of ObjectStore::list: whole segments, and at least one more
\* segment in the location than in the prefix
Path_prefix_matches(location, prefix) ==
    /\ Len(prefix) <= Len(location.dir)
    /\ SubSeq(location.dir, 1, Len(prefix)) = prefix

\* ObjectStore::put, ObjectStore::delete, ObjectStore::list on a set of objects
ObjectStore_put(objects, location, bytes) ==
    [q \in DOMAIN objects \cup {location} |->
        IF q = location THEN bytes ELSE objects[q]]
ObjectStore_delete(objects, location) ==
    [q \in DOMAIN objects \ {location} |-> objects[q]]
ObjectStore_list(objects, prefix) ==
    {q \in DOMAIN objects : Path_prefix_matches(q, prefix)}
\* delete_stream over `locations`, of which those in `deleted` were deleted
ObjectStore_delete_stream(objects, deleted) ==
    [q \in DOMAIN objects \ deleted |-> objects[q]]

\* PrefixStore::new(store, "index"): the location in the store underneath
PrefixStore_full_path(prefix, location) ==
    [location EXCEPT !.dir = <<prefix>> \o @]

\* one entry of the log
StorageCall(fn, name, content, ok) ==
    [fn |-> fn, name |-> name, content |-> content, ok |-> ok,
     store |-> st_store, index |-> st_index]

Logged(call) ==
    /\ Len(st_log) < MaxStorageOps
    /\ st_log' = Append(st_log, call)

StorageFrame ==
    UNCHANGED <<tarball_vars, manifest_vars, rust_version_vars, render_vars, pool_vars,
                run_vars>>

\* upload_crate_file(name, version, bytes), upload_readme(name, version, bytes)
UploadCrateFile(name, version, bytes) ==
    /\ Logged(StorageCall("upload_crate_file", name, bytes, TRUE))
    /\ st_store' = ObjectStore_put(st_store, crate_file_path(name, version), bytes)
    /\ UNCHANGED <<st_backend, st_index>>
    /\ StorageFrame

UploadReadme(name, version, bytes) ==
    /\ Logged(StorageCall("upload_readme", name, bytes, TRUE))
    /\ st_store' = ObjectStore_put(st_store, readme_path(name, version), bytes)
    /\ UNCHANGED <<st_backend, st_index>>
    /\ StorageFrame

\* delete_all_with_prefix(prefix): the listing, then the stream of deletions,
\* which ends at the first one that fails
DeleteAllWithPrefix(fn, name, prefix) ==
    LET listed == ObjectStore_list(st_store, prefix)
    IN  /\ \E deleted \in SUBSET listed :
              /\ Logged(StorageCall(fn, name, "", deleted = listed))
              /\ st_store' = ObjectStore_delete_stream(st_store, deleted)
        /\ UNCHANGED <<st_backend, st_index>>
        /\ StorageFrame

\* delete_all_crate_files(name)
DeleteAllCrateFiles(name) ==
    DeleteAllWithPrefix("delete_all_crate_files", name, <<PREFIX_CRATES, name>>)

\* delete_all_readmes(name)
DeleteAllReadmes(name) ==
    DeleteAllWithPrefix("delete_all_readmes", name, <<PREFIX_READMES, name>>)

\* variant with a slip: the index file is deleted through `store`
index_store_delete_through_store(backend, objects, location) ==
    [store |-> ObjectStore_delete(objects.store, location), index |-> objects.index]

\* index_upload_store.put and index_store.delete: the index bucket of the S3
\* backend, the store under the prefix "index" of the others
index_upload_store_put(backend, objects, location, bytes) ==
    IF backend = "S3"
    THEN [store |-> objects.store,
          index |-> ObjectStore_put(objects.index, location, bytes)]
    ELSE [store |-> ObjectStore_put(objects.store,
                        PrefixStore_full_path("index", location), bytes),
          index |-> objects.index]
index_store_delete(backend, objects, location) ==
    IF backend = "S3"
    THEN [store |-> objects.store, index |-> ObjectStore_delete(objects.index, location)]
    ELSE [store |-> ObjectStore_delete(objects.store,
                        PrefixStore_full_path("index", location)),
          index |-> objects.index]

\* sync_index(name, content)
SyncIndex(name, content) ==
    LET path == relative_index_file_for_url(name)
        objects == [store |-> st_store, index |-> st_index]
        after == IF content.some
                 THEN index_upload_store_put(st_backend, objects, path, content.val)
                 ELSE index_store_delete(st_backend, objects, path)
    IN  /\ Logged(StorageCall(IF content.some THEN "sync_index_some" ELSE "sync_index_none",
                              name, IF content.some THEN content.val ELSE "", TRUE))
        /\ st_store' = after.store
        /\ st_index' = after.index
        /\ UNCHANGED st_backend
        /\ StorageFrame

\* ------------------------------------------------------------------- inputs

Root == "foo-0.0.1"
OtherRoot == "bar-0.0.1"
PkgNames == {Root, OtherRoot}

\* 512 * 1024 * 1024 bytes, the cap of the crate's tests, in blocks
TestLimit == 1048576

RustVersion159 == <<"1", ".", "5", "9">>
RustVersion1590 == <<"1", ".", "5", "9", ".", "0">>
RustVersionCaret == <<"^", "1", ".", "5", "9">>
RustVersionTilde == <<"~", "1", ".", "5", "9">>
RustVersionBeta == <<"1", ".", "5", "9", "-", "b", "e", "t", "a">>
RustVersionPatchBeta == <<"1", ".", "5", "9", ".", "0", "-", "b", "e", "t", "a">>

\* the manifests of the crate's tests and manifests validate_manifest rejects
DocA == BaseDoc
DocB ==
    [BaseDoc EXCEPT !.table = "project",
                    !.present = {"rust-version", "readme", "repository"},
                    !.rust_version = RustVersion159,
                    !.readme = "README.md",
                    !.repository = "https://github.com/foo/bar"]
DocNoPackage == [BaseDoc EXCEPT !.table = "workspace"]
DocInherited == [BaseDoc EXCEPT !.inherit = {"license"}]
DocBadRustVersion ==
    [BaseDoc EXCEPT !.present = {"rust-version"}, !.rust_version = RustVersionCaret]

ManifestContents ==
    {TomlText(DocA), TomlText(DocB), TomlText(DocNoPackage), TomlText(DocInherited),
     TomlText(DocBadRustVersion), Garbage, NonUtf8}

VcsInfoContents ==
    {JsonText([keys |-> {"path_in_vcs"}, path_in_vcs |-> "path/in/vcs"]),
     JsonText([keys |-> {"unknown"}, path_in_vcs |-> ""]),
     Garbage, NonUtf8}

File(path, contents) ==
    [path |-> path, entry_type |-> "Regular", contents |-> contents, size |-> 1]
LinkEntry(path, type) ==
    [path |-> path, entry_type |-> type, contents |-> Garbage, size |-> 0]
\* a header of link type that declares content all the same
LinkWithContents(path, type, contents) ==
    [path |-> path, entry_type |-> type, contents |-> contents, size |-> 1]

AllEntries ==
    {File(<<Root, "Cargo.toml">>, c) : c \in ManifestContents}
    \cup {File(<<Root, "cargo.toml">>, TomlText(DocA))}
    \cup {File(<<Root, ".cargo_vcs_info.json">>, c) : c \in VcsInfoContents}
    \cup {File(<<Root, "src", "Cargo.toml">>, TomlText(DocA)),
          File(<<Root, "src", "lib.rs">>, Garbage),
          File(<<OtherRoot, "Cargo.toml">>, TomlText(DocA)),
          File(<<Root, "..", "other-1.0.0", "file">>, Garbage),
          LinkEntry(<<Root, "link">>, "Symlink"),
          LinkEntry(<<Root, "hard">>, "Link"),
          LinkWithContents(<<Root, "Cargo.toml">>, "Symlink", TomlText(DocB)),
          LinkWithContents(<<Root, ".cargo_vcs_info.json">>, "Link",
                           JsonText([keys |-> {"path_in_vcs"}, path_in_vcs |-> "path/in/vcs"]))}

\* the entries tried under every cap and every package name
CapEntries ==
    {File(<<Root, "Cargo.toml">>, TomlText(DocA)),
     File(<<Root, ".cargo_vcs_info.json">>,
          JsonText([keys |-> {"path_in_vcs"}, path_in_vcs |-> "path/in/vcs"])),
     File(<<Root, "src", "lib.rs">>, Garbage),
     File(<<OtherRoot, "Cargo.toml">>, TomlText(DocA)),
     LinkEntry(<<Root, "link">>, "Symlink")}

ArchivesOf(entries) == UNION {[1..n -> entries] : n \in 0..MaxEntries}

\* the subsets of S with at most k elements
RECURSIVE SubsetsUpTo(_, _)
SubsetsUpTo(S, k) ==
    IF k = 0 THEN {{}}
    ELSE LET smaller == SubsetsUpTo(S, k - 1)
         IN  smaller \cup {x \cup {a} : x \in smaller, a \in S}

\* what a manifest can mark `workspace = true`: a package key or a dependency
Slots == ({"package"} \X PackageKeys) \cup (DepTables \X DepNames)

\* the manifest text with the slots of `marks` inherited; `full` writes every
\* optional key and both dependencies of every table, otherwise only the
\* inherited ones are written
DocWith(table, marks, full, rv) ==
    [BaseDoc EXCEPT
        !.table = table,
        !.inherit = {k \in PackageKeys : <<"package", k>> \in marks},
        !.present = IF rv = <<>> THEN (IF full THEN PackageKeys \ {"rust-version"} ELSE {})
                    ELSE (IF full THEN PackageKeys ELSE {"rust-version"}),
        !.rust_version = rv,
        !.readme = "README.md",
        !.deps = [t \in DepTables |->
                    [n \in {m \in DepNames : full \/ <<t, m>> \in marks} |->
                        IF <<t, n>> \in marks THEN "workspace" ELSE "version"]]]

ManifestTexts ==
    {TomlText(DocWith(table, marks, full, rv)) :
        table \in {"package", "project", "workspace"},
        marks \in SubsetsUpTo(Slots, MaxInherited),
        full \in BOOLEAN,
        rv \in {<<>>, RustVersion159, RustVersionCaret}}
    \cup {Garbage}

RustVersionChars == {"0", "1", "5", ".", "^", "-", "b", ",", "*"}

\* the strings over RustVersionChars of length at most n
RECURSIVE StringsUpTo(_)
StringsUpTo(n) ==
    IF n = 0 THEN {<<>>}
    ELSE LET shorter == StringsUpTo(n - 1)
         IN  shorter \cup {Append(s, c) : s \in {x \in shorter : Len(x) = n - 1},
                                           c \in RustVersionChars}

RustVersionExamples ==
    {RustVersion159, RustVersion1590, RustVersionCaret, RustVersionTilde,
     RustVersionBeta, RustVersionPatchBeta}

RustVersionInputs ==
    {None} \cup {Some(s) : s \in StringsUpTo(MaxRustVersionLen) \cup RustVersionExamples}

\* ----------------------------------------------------------- specifications

NoInvocation ==
    /\ invocations = {}
    /\ pkg_name = <<>> /\ tarball = <<>> /\ max_unpack = <<>>
    /\ pc = <<>> /\ yielded = <<>> /\ emitted = <<>>
    /\ vcs_info = <<>> /\ manifest = <<>> /\ result = <<>>

\* the state of the calls in `invocations` at the entry of process_tarball
Called ==
    /\ pc = [p \in invocations |-> "scanning"]
    /\ yielded = [p \in invocations |-> 0]
    /\ emitted = [p \in invocations |-> 0]
    /\ vcs_info = [p \in invocations |-> None]
    /\ manifest = [p \in invocations |-> None]
    /\ result = [p \in invocations |-> Pending]

ManifestIdle ==
    vm_pc = "idle" /\ vm_text = Garbage /\ vm_manifest = None /\ vm_result = ValidOk

RustVersionIdle ==
    rv_pc = "idle" /\ rv_value = None /\ rv_result = ValidOk

RenderIdle ==
    rd_pc = "idle" /\ rd_archive = <<>> /\ rd_pkg_name = "" /\ rd_result = RenderPending

StorageIdle ==
    st_backend = "InMemory" /\ st_store = NoObjects /\ st_index = NoObjects /\ st_log = <<>>

PoolIdle ==
    /\ pl_variant = "Pool" /\ pl_db_up = FALSE /\ pl_connections = 0 /\ pl_idle = 0
    /\ pl_pc = "idle" /\ pl_call = NoCall

RunIdle ==
    /\ rn_page_size = 1 /\ rn_total = 0 /\ rn_pc = "idle" /\ rn_page = 0 /\ rn_next = 1
    /\ rn_tasks = <<>> /\ rn_joined = 0 /\ rn_recorded = {} /\ rn_threads = <<>>
    /\ rn_logged = {} /\ rn_record_failed = FALSE /\ rn_result = "Pending"

ServiceIdle == StorageIdle /\ PoolIdle /\ RunIdle

\* one call of process_tarball: any archive under the cap of the tests, and the
\* archives over CapEntries under every small cap and package name
Init ==
    /\ invocations = {1}
    /\ \/ /\ pkg_name = [p \in invocations |-> Root]
          /\ tarball \in [invocations -> ArchivesOf(AllEntries)]
          /\ max_unpack = [p \in invocations |-> TestLimit]
       \/ /\ pkg_name \in [invocations -> PkgNames]
          /\ tarball \in [invocations -> ArchivesOf(CapEntries)]
          /\ max_unpack \in [invocations -> 0..MaxUnpack]
    /\ Called
    /\ ManifestIdle
    /\ RustVersionIdle
    /\ RenderIdle
    /\ ServiceIdle

Next ==
    \/ \E p \in invocations : EntryFails(p)
    \/ \E p \in invocations : RejectPath(p)
    \/ \E p \in invocations : RejectLink(p)
    \/ \E p \in invocations : ReadVcsInfo(p)
    \/ \E p \in invocations : ReadManifest(p)
    \/ \E p \in invocations : SkipEntry(p)
    \/ \E p \in invocations : Finish(p)

Spec == Init /\ [][Next]_vars

\* validate_manifest applied to a manifest text, directly and then through
\* process_tarball on the archive that holds the text as its only entry
InitManifest ==
    /\ vm_pc = "text"
    /\ vm_text \in ManifestTexts
    /\ vm_manifest = None
    /\ vm_result = ValidOk
    /\ invocations = {1}
    /\ pkg_name = [p \in invocations |-> Root]
    /\ tarball = [p \in invocations |-> <<File(<<Root, "Cargo.toml">>, vm_text)>>]
    /\ max_unpack = [p \in invocations |-> TestLimit]
    /\ Called
    /\ RustVersionIdle
    /\ RenderIdle
    /\ ServiceIdle

NextManifest ==
    \/ ParseManifest /\ UNCHANGED <<tarball_vars, rust_version_vars, render_vars, service_vars>>
    \/ ValidateManifest /\ UNCHANGED <<tarball_vars, rust_version_vars, render_vars, service_vars>>
    \/ vm_pc = "done" /\ ReadManifest(1)
    \/ vm_pc = "done" /\ Finish(1)

SpecManifest == InitManifest /\ [][NextManifest]_vars

InitRustVersion ==
    /\ rv_pc = "input"
    /\ rv_value \in RustVersionInputs
    /\ rv_result = ValidOk
    /\ NoInvocation
    /\ ManifestIdle
    /\ RenderIdle
    /\ ServiceIdle

NextRustVersion ==
    ValidateRustVersion /\ UNCHANGED <<tarball_vars, manifest_vars, render_vars, service_vars>>

SpecRustVersion == InitRustVersion /\ [][NextRustVersion]_vars

\* the entries of the calls made side by side
CallEntries ==
    {File(<<Root, "Cargo.toml">>, TomlText(DocA)),
     File(<<Root, "cargo.toml">>, TomlText(DocA)),
     File(<<Root, ".cargo_vcs_info.json">>,
          JsonText([keys |-> {"path_in_vcs"}, path_in_vcs |-> "path/in/vcs"])),
     File(<<Root, "src", "lib.rs">>, Garbage),
     LinkEntry(<<Root, "link">>, "Symlink")}

SecondEntries ==
    {File(<<Root, "Cargo.toml">>, TomlText(DocB)),
     File(<<Root, ".cargo_vcs_info.json">>, JsonText([keys |-> {"unknown"}, path_in_vcs |-> ""]))}

CallArchivesOf(entries) == UNION {[1..n -> entries] : n \in 0..MaxCallEntries}

\* a cap that cuts the longest of these archives, and the cap of the tests
CallCaps == {MaxCallEntries + 1, TestLimit}

\* the archive with its lowercase manifest entries named Cargo.toml
Uppercased(archive) ==
    [i \in DOMAIN archive |->
        IF Len(archive[i].path) = 2 /\ archive[i].path[2] = "cargo.toml"
        THEN [archive[i] EXCEPT !.path = <<archive[i].path[1], "Cargo.toml">>]
        ELSE archive[i]]

\* two calls of process_tarball in progress side by side: the second one on the
\* archive of the first, on that archive with the manifest renamed, or on an
\* archive with other contents, under its own name and cap
InitCalls ==
    /\ invocations = {1, 2}
    /\ \E a \in CallArchivesOf(CallEntries) :
          \E b \in {a, Uppercased(a)} \cup CallArchivesOf(SecondEntries) :
              tarball = (1 :> a) @@ (2 :> b)
    /\ \E n \in PkgNames : pkg_name = (1 :> Root) @@ (2 :> n)
    /\ max_unpack \in [invocations -> CallCaps]
    /\ Called
    /\ ManifestIdle
    /\ RustVersionIdle
    /\ RenderIdle
    /\ ServiceIdle

\* the steps of the calls interleave; a third call repeats an earlier one
NextCalls ==
    \/ \E p \in invocations : EntryFails(p)
    \/ \E p \in invocations : RejectPath(p)
    \/ \E p \in invocations : RejectLink(p)
    \/ \E p \in invocations : ReadVcsInfo(p)
    \/ \E p \in invocations : ReadManifest(p)
    \/ \E p \in invocations : SkipEntry(p)
    \/ \E p \in invocations : Finish(p)
    \/ \E q \in invocations : Call(3, q)

SpecCalls == InitCalls /\ [][NextCalls]_vars

\* the manifests of the tests of render_pkg_readme
DocReadmeInDocs ==
    [BaseDoc EXCEPT !.present = {"readme", "repository"},
                    !.readme = "docs/README.md",
                    !.repository = "https://github.com/foo/foo"]
DocNoReadme == [BaseDoc EXCEPT !.present = {"readme"}, !.readme = "false"]
\* manifests validate_manifest rejects that name a readme: an inherited licence
\* and a rust-version with a comparator, and an inherited repository
DocLegacy ==
    [BaseDoc EXCEPT !.inherit = {"license"},
                    !.present = {"rust-version", "readme"},
                    !.rust_version = RustVersionCaret,
                    !.readme = "README.md"]
DocInheritedRepository ==
    [BaseDoc EXCEPT !.inherit = {"repository"},
                    !.present = {"readme"},
                    !.readme = "README.md"]

ReadmeEntries ==
    {File(<<Root, "Cargo.toml">>, TomlText(DocA)),
     File(<<Root, "Cargo.toml">>, TomlText(DocB)),
     File(<<Root, "Cargo.toml">>, TomlText(DocReadmeInDocs)),
     File(<<Root, "Cargo.toml">>, TomlText(DocNoReadme)),
     File(<<Root, "Cargo.toml">>, TomlText(DocLegacy)),
     File(<<Root, "Cargo.toml">>, TomlText(DocInheritedRepository)),
     File(<<Root, "cargo.toml">>, TomlText(DocA)),
     File(<<Root, "README.md">>, Markdown("readme")),
     File(<<Root, "docs", "README.md">>, Markdown("docs/readme")),
     File(<<OtherRoot, "README.md">>, Markdown("other readme")),
     File(<<Root, ".cargo_vcs_info.json">>, JsonText([keys |-> {"unknown"}, path_in_vcs |-> ""])),
     LinkEntry(<<Root, "link">>, "Symlink")}

\* render_pkg_readme and process_tarball called on the same archive
InitReadme ==
    /\ rd_pc = "called"
    /\ rd_archive \in ArchivesOf(ReadmeEntries)
    /\ rd_pkg_name = Root
    /\ rd_result = RenderPending
    /\ invocations = {1}
    /\ pkg_name = [p \in invocations |-> rd_pkg_name]
    /\ tarball = [p \in invocations |-> rd_archive]
    /\ max_unpack \in [invocations -> {MaxEntries, TestLimit}]
    /\ Called
    /\ ManifestIdle
    /\ RustVersionIdle
    /\ ServiceIdle

NextReadme ==
    \/ RenderPkgReadme /\ UNCHANGED <<tarball_vars, manifest_vars, rust_version_vars, service_vars>>
    \/ EntryFails(1)
    \/ RejectPath(1)
    \/ RejectLink(1)
    \/ ReadVcsInfo(1)
    \/ ReadManifest(1)
    \/ SkipEntry(1)
    \/ Finish(1)

SpecReadme == InitReadme /\ [][NextReadme]_vars

\* the crates and the bytes of the calls on the Storage
CrateNames == {"foo", "foobar"}
StorageVersion == "1.0.0"
IndexContents == {"foo", "foo2"}

\* the store of the tests (prepare), and the same with a crate whose name
\* begins with the name of another and with an index file
PreparedStore ==
    [q \in {crate_file_path("bar", "2.0.0"), crate_file_path("foo", "1.0.0"),
            crate_file_path("foo", "1.2.3"), readme_path("bar", "2.0.0"),
            readme_path("foo", "1.0.0"), readme_path("foo", "1.2.3")} |-> ""]
FullStore ==
    [q \in DOMAIN PreparedStore \cup {crate_file_path("foobar", "1.0.0"),
                                      readme_path("foobar", "1.0.0")} |-> ""]
IndexOfFoo == [q \in {relative_index_file_for_url("foo")} |-> "foo2"]

InitStorage ==
    /\ st_backend \in {"InMemory", "S3"}
    /\ \E base \in {NoObjects, PreparedStore, FullStore}, index \in {NoObjects, IndexOfFoo} :
          IF st_backend = "S3"
          THEN st_store = base /\ st_index = index
          ELSE /\ st_store = [q \in DOMAIN base
                                   \cup {PrefixStore_full_path("index", i) : i \in DOMAIN index}
                                 |-> IF q \in DOMAIN base THEN base[q] ELSE "foo2"]
               /\ st_index = NoObjects
    /\ st_log = <<>>
    /\ NoInvocation
    /\ ManifestIdle
    /\ RustVersionIdle
    /\ RenderIdle
    /\ PoolIdle
    /\ RunIdle

NextStorage ==
    \/ \E name \in CrateNames : UploadCrateFile(name, StorageVersion, "bytes")
    \/ \E name \in CrateNames : UploadReadme(name, StorageVersion, "html")
    \/ \E name \in CrateNames : DeleteAllCrateFiles(name)
    \/ \E name \in CrateNames : DeleteAllReadmes(name)
    \/ \E name \in CrateNames, content \in IndexContents : SyncIndex(name, Some(content))
    \/ \E name \in CrateNames : SyncIndex(name, None)

SpecStorage == InitStorage /\ [][NextStorage]_vars

\* a pool under creation by DieselPool::new, with no connection yet, or a
\* background-job pool built elsewhere; the database up or down
InitPool ==
    /\ pl_variant \in {"Pool", "BackgroundJobPool"}
    /\ pl_db_up \in BOOLEAN
    /\ IF pl_variant = "Pool"
       THEN /\ pl_connections = 0 /\ pl_idle = 0
            /\ pl_pc = "new_wait"
            /\ pl_call = [NoCall EXCEPT !.fn = "new"]
       ELSE /\ pl_connections \in 0..MaxConnections
            /\ pl_idle = pl_connections
            /\ pl_pc = "ready"
            /\ pl_call = NoCall
    /\ NoInvocation
    /\ ManifestIdle
    /\ RustVersionIdle
    /\ RenderIdle
    /\ StorageIdle
    /\ RunIdle

NextPool ==
    \/ NewGotConnection
    \/ NewTimedOut
    \/ NewCheckHealth
    \/ GetTryGot
    \/ GetTryMissed
    \/ GetCheckHealth
    \/ GetBackground
    \/ GetBlockingGot
    \/ GetBlockingTimedOut
    \/ ConnectionEstablished
    \/ ConnectionLost
    \/ ConnectionReturned
    \/ ConnectionTaken

SpecPool == InitPool /\ [][NextPool]_vars

ThreadOutcomes == {"ok", "err", "panic"}

\* run after the version ids were loaded: any number of versions, any page
\* size from 1 on, none rendered yet
InitRun ==
    /\ rn_page_size \in 1..MaxPageSize
    /\ rn_total \in 0..MaxVersions
    /\ rn_pc = "paging"
    /\ rn_page = 0
    /\ rn_next = 1
    /\ rn_tasks = <<>>
    /\ rn_joined = 0
    /\ rn_recorded = {}
    /\ rn_threads = [v \in 1..rn_total |-> "none"]
    /\ rn_logged = {}
    /\ rn_record_failed = FALSE
    /\ rn_result = "Pending"
    /\ NoInvocation
    /\ ManifestIdle
    /\ RustVersionIdle
    /\ RenderIdle
    /\ StorageIdle
    /\ PoolIdle

NextRun ==
    \/ RunReturnsOk
    \/ LoadPage
    \/ LoadPageFails
    \/ RecordRendering
    \/ RecordRenderingFails
    \/ SpawnThread
    \/ \E v \in 1..rn_total, outcome \in ThreadOutcomes : ThreadEnds(v, outcome)
    \/ JoinHandle
    \/ NextPage

SpecRun == InitRun /\ [][NextRun]_vars

\* ------------------------------------------- vocabulary of the properties

Returned(p) == pc[p] = "done"
Indexes(p) == 1..Len(tarball[p])
EntryAt(p, i) == tarball[p][i]

\* the path of entry i begins with "{name}-{version}/"
UnderRoot(p, i) == EntryAt(p, i).path # <<>> /\ Head(EntryAt(p, i).path) = pkg_name[p]
LinkAt(p, i) == EntryAt(p, i).entry_type \in {"Symlink", "Link"}
\* entry i sits at exactly {name}-{version}/Cargo.toml or .../cargo.toml
CandidateAt(p, i) ==
    EntryAt(p, i).path \in {<<pkg_name[p], "Cargo.toml">>, <<pkg_name[p], "cargo.toml">>}
VcsInfoAt(p, i) == EntryAt(p, i).path = <<pkg_name[p], ".cargo_vcs_info.json">>

\* what the manifest text marks `workspace = true`
InheritedMarks(doc) ==
    {<<"package", k>> : k \in doc.inherit}
    \cup {tn \in DepTables \X DepNames :
            /\ tn[2] \in DOMAIN doc.deps[tn[1]]
            /\ doc.deps[tn[1]][tn[2]] = "workspace"}

\* the string is one, two or three dot-separated decimal numbers, none empty
\* and none with a leading zero
IsBareVersion(s) ==
    /\ s # <<>>
    /\ \A i \in 1..Len(s) : s[i] \in Digits \cup {"."}
    /\ s[1] # "." /\ s[Len(s)] # "."
    /\ \A i \in 1..(Len(s) - 1) : ~(s[i] = "." /\ s[i + 1] = ".")
    /\ Cardinality({i \in 1..Len(s) : s[i] = "."}) <= 2
    /\ \A i \in 1..(Len(s) - 1) :
          (s[i] = "0" /\ (i = 1 \/ s[i - 1] = ".")) => s[i + 1] = "."

\* the content is the UTF-8 text of a manifest that has a package table (under
\* either name), nothing inherited and, if any, a bare rust-version
ManifestAccepted(contents) ==
    /\ contents.utf8
    /\ contents.fmt = "toml"
    /\ contents.toml.table \in {"package", "project"}
    /\ InheritedMarks(contents.toml) = {}
    /\ "rust-version" \in contents.toml.present => IsBareVersion(contents.toml.rust_version)

\* entry i can make no call fail: it lies under the root, is no link, and what
\* is read of it decodes and, for a manifest, parses and validates
Clean(p, i) ==
    /\ UnderRoot(p, i)
    /\ ~LinkAt(p, i)
    /\ VcsInfoAt(p, i) => EntryAt(p, i).contents.utf8
    /\ CandidateAt(p, i) => ManifestAccepted(EntryAt(p, i).contents)
CleanBefore(p, i) == \A j \in 1..(i - 1) : Clean(p, j)
AllClean(p) == \A i \in Indexes(p) : Clean(p, i)

\* the cap admits the stream up to and including the header of entry i
HeaderWithinCap(p, i) == HeaderOffset(tarball[p], i) + 1 <= max_unpack[p]
WithinCap(p) == DecompressedSize(tarball[p]) <= max_unpack[p]

Candidates(p) == {i \in Indexes(p) : CandidateAt(p, i)}
VcsInfos(p) == {i \in Indexes(p) : VcsInfoAt(p, i)}
First(S) == CHOOSE i \in S : \A j \in S : i <= j
Last(S) == CHOOSE i \in S : \A j \in S : j <= i
ParsedAt(p, i) == Manifest_from_str(EntryAt(p, i).contents).manifest

\* ------------------------------------------------------------ C1 .. C5

\* C1, as stated: whenever the archive holds an entry whose path does not begin
\* with the package root, the call returns InvalidPath with that entry's path,
\* whatever the other entries are.
C1_AnyInvalidPathReported ==
    \A p \in invocations : Returned(p) =>
        \A i \in Indexes(p) :
            ~UnderRoot(p, i) => result[p] = Err("InvalidPath", EntryAt(p, i).path, "")

\* C1, amended: an entry outside the package root makes the call return
\* InvalidPath with that entry's path when every entry before it is clean and
\* the cap admits the stream through that entry's header; what follows the
\* entry does not matter.
C1_FirstInvalidPathReported ==
    \A p \in invocations : Returned(p) =>
        \A i \in Indexes(p) :
            (~UnderRoot(p, i) /\ CleanBefore(p, i) /\ HeaderWithinCap(p, i))
                => result[p] = Err("InvalidPath", EntryAt(p, i).path, "")

C1_Witness ==
    \E p \in invocations : Returned(p) /\
        \E i \in Indexes(p) :
            /\ 1 < i /\ i < Len(tarball[p])
            /\ ~UnderRoot(p, i) /\ CleanBefore(p, i) /\ HeaderWithinCap(p, i)
            /\ result[p] = Err("InvalidPath", EntryAt(p, i).path, "")

\* C2, as stated: whenever the archive holds a symlink or hardlink entry, the
\* call returns UnexpectedSymlink with that entry's path.
C2_AnyLinkReported ==
    \A p \in invocations : Returned(p) =>
        \A i \in Indexes(p) :
            LinkAt(p, i) => result[p] = Err("UnexpectedSymlink", EntryAt(p, i).path, "")

\* C2, amended: a link entry under the package root makes the call return
\* UnexpectedSymlink with that entry's path when every entry before it is clean
\* (a valid manifest among them changes nothing) and the cap admits the stream
\* through that entry's header.
C2_FirstLinkReported ==
    \A p \in invocations : Returned(p) =>
        \A i \in Indexes(p) :
            (LinkAt(p, i) /\ UnderRoot(p, i) /\ CleanBefore(p, i) /\ HeaderWithinCap(p, i))
                => result[p] = Err("UnexpectedSymlink", EntryAt(p, i).path, "")

C2_Witness ==
    \E p \in invocations : Returned(p) /\
        \E i \in Indexes(p) :
            /\ EntryAt(p, i).entry_type = "Link" /\ UnderRoot(p, i)
            /\ CleanBefore(p, i) /\ HeaderWithinCap(p, i)
            /\ \E j \in 1..(i - 1) : CandidateAt(p, j)
            /\ result[p] = Err("UnexpectedSymlink", EntryAt(p, i).path, "")

\* C3, as stated: whenever no entry sits at exactly the manifest path (either
\* case), the call returns MissingManifest, after the walk has exhausted the
\* entries.
C3_NoCandidateIsMissingManifest ==
    \A p \in invocations : Returned(p) =>
        (Candidates(p) = {} =>
            /\ result[p] = Err("MissingManifest", <<>>, "")
            /\ yielded[p] = Len(tarball[p]))

\* C3, amended: when no entry sits at exactly the manifest path, every entry is
\* clean and the cap admits the whole stream, the call returns MissingManifest;
\* and MissingManifest is returned only after the walk has yielded every entry
\* and read the end of the archive, none of the entries being a candidate.
C3_MissingManifestAfterCleanWalk ==
    \A p \in invocations : Returned(p) =>
        /\ (Candidates(p) = {} /\ AllClean(p) /\ WithinCap(p))
              => result[p] = Err("MissingManifest", <<>>, "")
        /\ result[p].kind = "MissingManifest" =>
              /\ yielded[p] = Len(tarball[p])
              /\ emitted[p] = DecompressedSize(tarball[p])
              /\ Candidates(p) = {}

C3_Witness ==
    \E p \in invocations :
        /\ Returned(p)
        /\ \E i \in Indexes(p) : EntryAt(p, i).path = <<pkg_name[p], "src", "Cargo.toml">>
        /\ \E i \in Indexes(p) : VcsInfoAt(p, i)
        /\ Candidates(p) = {} /\ AllClean(p) /\ WithinCap(p)
        /\ result[p] = Err("MissingManifest", <<>>, "")

\* the manifest returned is the one parsed from entry i, with the package name
\* and version written there
ReturnsManifestOf(p, i) ==
    /\ result[p].kind = "Ok"
    /\ result[p].manifest = Some(ParsedAt(p, i))
    /\ result[p].manifest.val.package.some
    /\ result[p].manifest.val.package.val.name = EntryAt(p, i).contents.toml.name
    /\ result[p].manifest.val.package.val.version = Set(EntryAt(p, i).contents.toml.version)

\* C4, as stated: when every entry lies under the package root, none is a
\* link, the cap admits the stream and a manifest that parses and validates
\* sits at the package root, the call succeeds with the manifest parsed from
\* the archive's manifest entry.
C4_ValidArchiveSucceeds ==
    \A p \in invocations : Returned(p) =>
        ((/\ \A i \in Indexes(p) : UnderRoot(p, i) /\ ~LinkAt(p, i)
          /\ WithinCap(p)
          /\ \E i \in Candidates(p) : ManifestAccepted(EntryAt(p, i).contents))
            => \E i \in Candidates(p) : ReturnsManifestOf(p, i))

\* C4, amended: when moreover every manifest candidate of the archive parses
\* and validates and every VCS-info entry is UTF-8 (every entry is clean), the
\* call succeeds with the manifest parsed from the archive's last manifest
\* candidate.
C4_CleanArchiveSucceeds ==
    \A p \in invocations : Returned(p) =>
        ((AllClean(p) /\ WithinCap(p) /\ Candidates(p) # {})
            => ReturnsManifestOf(p, Last(Candidates(p))))

C4_Witness ==
    \E p \in invocations :
        /\ Returned(p)
        /\ AllClean(p) /\ WithinCap(p) /\ Len(tarball[p]) = 3
        /\ Candidates(p) # {}
        /\ EntryAt(p, Last(Candidates(p))).contents.toml.table = "project"
        /\ ReturnsManifestOf(p, Last(Candidates(p)))

\* C5: an archive that is accepted under a sufficient cap fails with Malformed
\* under every cap smaller than its decompressed size, whichever read crosses
\* the cap, and succeeds under every cap of at least that size.
C5_CapExceededIsMalformed ==
    \A p \in invocations : Returned(p) =>
        ((AllClean(p) /\ Candidates(p) # {}) =>
            /\ ~WithinCap(p) => result[p].kind = "Malformed"
            /\ WithinCap(p) => result[p].kind = "Ok")

\* ------------------------------------------------------------ C6 .. C8

\* the fields the rule names: the sixteen package keys and the dependencies of
\* the three tables
NamedSlots ==
    {<<"package", k>> : k \in
        {"edition", "rust-version", "version", "authors", "description", "homepage",
         "documentation", "readme", "keywords", "categories", "exclude", "include",
         "license", "license-file", "repository", "publish"}}
    \cup ({"dependencies", "dev-dependencies", "build-dependencies"} \X DepNames)

\* the text is a manifest with a package table whose rust-version, once
\* resolved, is absent or a bare version: with nothing inherited it is accepted
ResolvedFormAccepted(text) ==
    /\ text.fmt = "toml"
    /\ text.toml.table \in {"package", "project"}
    /\ text.toml.rust_version \in {<<>>, RustVersion159}

\* C6: a manifest that differs from an accepted one in having a named field
\* (or dependency) inherited is rejected with InvalidManifest (inherited
\* value), by validate_manifest and by process_tarball; with every such field
\* resolved or absent it is accepted.
C6_InheritedRejected ==
    ResolvedFormAccepted(vm_text) =>
        LET marks == InheritedMarks(vm_text.toml)
        IN  /\ vm_pc = "done" =>
                /\ (marks \cap NamedSlots # {}) => vm_result = ValidErr("InheritedUnknownValue")
                /\ marks = {} => vm_result = ValidOk
            /\ Returned(1) =>
                /\ (marks \cap NamedSlots # {})
                      => result[1] = Err("InvalidManifest", <<>>, "InheritedUnknownValue")
                /\ marks = {} => result[1].kind = "Ok"

C6_Witness ==
    /\ ResolvedFormAccepted(vm_text)
    /\ InheritedMarks(vm_text.toml) = {<<"package", "license-file">>}
    /\ vm_pc = "done" /\ vm_result = ValidErr("InheritedUnknownValue")
    /\ Returned(1) /\ result[1] = Err("InvalidManifest", <<>>, "InheritedUnknownValue")

\* C7: a rust-version is accepted iff it is absent or a bare dotted version
\* (it parses as a version requirement and holds only digits and dots); 1.59
\* and 1.59.0 are accepted, ^1.59, ~1.59 and 1.59-beta are rejected with
\* InvalidManifest (invalid rust-version value).
C7_BareVersionOnly ==
    rv_pc = "done" =>
        /\ rv_result.ok <=> (~rv_value.some \/ IsBareVersion(rv_value.val))
        /\ ~rv_result.ok => rv_result = ValidErr("invalid rust-version value")
        /\ rv_value \in {None, Some(RustVersion159), Some(RustVersion1590)} => rv_result.ok
        /\ rv_value \in {Some(RustVersionCaret), Some(RustVersionTilde),
                         Some(RustVersionBeta), Some(RustVersionPatchBeta)} => ~rv_result.ok

C7_Witness ==
    /\ rv_pc = "done"
    /\ rv_value = Some(RustVersionCaret)
    /\ VersionReq_parse(rv_value.val)
    /\ rv_result = ValidErr("invalid rust-version value")

\* C8: a manifest that parses and has no [package] table is rejected with
\* InvalidManifest (missing field package), by validate_manifest and by
\* process_tarball, also when it has inherited dependencies.
C8_MissingPackageFirst ==
    (vm_text.fmt = "toml" /\ vm_text.toml.table \notin {"package", "project"}) =>
        /\ vm_pc = "done" => vm_result = ValidErr("missing field package")
        /\ Returned(1) => result[1] = Err("InvalidManifest", <<>>, "missing field package")

C8_Witness ==
    /\ vm_text.fmt = "toml" /\ vm_text.toml.table = "workspace"
    /\ \E n \in DepNames : <<"dependencies", n>> \in InheritedMarks(vm_text.toml)
    /\ vm_pc = "done" /\ vm_result = ValidErr("missing field package")
    /\ Returned(1) /\ result[1] = Err("InvalidManifest", <<>>, "missing field package")

\* ------------------------------------------------------------ C9, C10

VcsInfoParsedAt(p, i) == ResultOk(CargoVcsInfo_from_contents(EntryAt(p, i).contents))

\* C10, as stated: with more than one VCS-info entry, a successful call returns
\* the vcs_info stored from the first of them.
C10_FirstVcsInfoWins ==
    \A p \in invocations :
        (Returned(p) /\ result[p].kind = "Ok" /\ Cardinality(VcsInfos(p)) > 1)
            => result[p].vcs_info = VcsInfoParsedAt(p, First(VcsInfos(p)))

\* C10, amended: with more than one VCS-info entry, a successful call returns
\* what the last of them gives: its parsed value, or None when it does not
\* parse, whatever an earlier one held.
C10_LastVcsInfoWins ==
    \A p \in invocations :
        (Returned(p) /\ result[p].kind = "Ok" /\ Cardinality(VcsInfos(p)) > 1)
            => result[p].vcs_info = VcsInfoParsedAt(p, Last(VcsInfos(p)))

C10_Witness ==
    \E p \in invocations :
        /\ Returned(p) /\ result[p].kind = "Ok" /\ Cardinality(VcsInfos(p)) > 1
        /\ VcsInfoParsedAt(p, First(VcsInfos(p))).some
        /\ ~VcsInfoParsedAt(p, Last(VcsInfos(p))).some
        /\ result[p].vcs_info = None

\* ------------------------------------------------------------ C11, C12

\* the cap admits the stream up to and including the content of entry i
ContentWithinCap(p, i) ==
    HeaderOffset(tarball[p], i) + 1 + EntryAt(p, i).size <= max_unpack[p]

\* the archive is one the call accepts, its VCS-info entries left aside: every
\* entry lies under the root and is no link, every manifest candidate is
\* accepted, there is one, and the cap admits the stream
OtherwiseAccepted(p) ==
    /\ \A i \in Indexes(p) :
          /\ UnderRoot(p, i) /\ ~LinkAt(p, i)
          /\ CandidateAt(p, i) => ManifestAccepted(EntryAt(p, i).contents)
    /\ Candidates(p) # {}
    /\ WithinCap(p)

\* the content of entry i is not UTF-8, or is text that is no JSON document
UndecodableVcsInfo(p, i) ==
    ~EntryAt(p, i).contents.utf8 \/ EntryAt(p, i).contents.fmt # "json"

C12_VcsInfoValues ==
    \A p \in invocations : Returned(p) =>
        ((OtherwiseAccepted(p) /\ Cardinality(VcsInfos(p)) <= 1) =>
            /\ VcsInfos(p) = {} => result[p].kind = "Ok" /\ result[p].vcs_info = None
            /\ \A i \in VcsInfos(p) :
                  LET text == EntryAt(p, i).contents
                  IN  (text.utf8 /\ text.fmt = "json") =>
                        /\ result[p].kind = "Ok"
                        /\ "path_in_vcs" \notin text.json.keys
                              => result[p].vcs_info = Some([path_in_vcs |-> ""])
                        /\ "path_in_vcs" \in text.json.keys
                              => result[p].vcs_info = Some([path_in_vcs |-> text.json.path_in_vcs]))

C12_Witness ==
    \E p \in invocations :
        /\ Returned(p) /\ OtherwiseAccepted(p)
        /\ \E i \in VcsInfos(p) :
              /\ VcsInfos(p) = {i}
              /\ EntryAt(p, i).contents.fmt = "json"
              /\ EntryAt(p, i).contents.json.keys = {"unknown"}
        /\ result[p].kind = "Ok"
        /\ result[p].vcs_info = Some([path_in_vcs |-> ""])

\* ------------------------------------------------------------ C14 .. C16

\* the content of entry i is not UTF-8, or is text that is no TOML document
UndecodableManifest(p, i) ==
    ~EntryAt(p, i).contents.utf8 \/ EntryAt(p, i).contents.fmt # "toml"

ReadAt(p, i) == VcsInfoAt(p, i) \/ CandidateAt(p, i)

\* nothing fails at entry i: it is clean and the cap admits what is read of it
NoFailureAt(p, i) ==
    /\ Clean(p, i)
    /\ HeaderWithinCap(p, i)
    /\ ReadAt(p, i) => ContentWithinCap(p, i)

\* the variants a failed read of the stream is returned as
ReadErrors == {"Malformed", "IO"}

\* what fails at entry i: the read of its header, the path test, the link test
\* or the read of its content; "None" when none of them fails there
StructuralErrorAt(p, i) ==
    IF ~HeaderWithinCap(p, i) THEN "Read"
    ELSE IF ~UnderRoot(p, i) THEN "InvalidPath"
    ELSE IF LinkAt(p, i) THEN "UnexpectedSymlink"
    ELSE IF ReadAt(p, i) /\ (~ContentWithinCap(p, i) \/ ~EntryAt(p, i).contents.utf8)
         THEN "Read"
    ELSE "None"

\* C15: the first entry that fails the path test, the link test or a read ends
\* the call with that error: it is the last entry fetched, nothing of the
\* stream after it is read, and the value returned carries neither the manifest
\* nor the VCS info captured from the entries before it.  A stream that the cap
\* cuts at the end-of-archive block ends the call in the same way.
C15_FirstFailureEndsTheCall ==
    \A p \in invocations : Returned(p) =>
        /\ \A i \in Indexes(p) :
              (StructuralErrorAt(p, i) # "None" /\ \A j \in 1..(i - 1) : NoFailureAt(p, j)) =>
                  /\ IF StructuralErrorAt(p, i) = "Read"
                     THEN result[p].kind \in ReadErrors
                     ELSE result[p].kind = StructuralErrorAt(p, i)
                  /\ result[p].kind \in {"InvalidPath", "UnexpectedSymlink"}
                        => result[p].path = EntryAt(p, i).path
                  /\ yielded[p] = i - 1
                  /\ emitted[p] <= HeaderOffset(tarball[p], i) + 1 + EntryAt(p, i).size
                  /\ ReadAt(p, i) \/ emitted[p] <= HeaderOffset(tarball[p], i) + 1
                  /\ result[p].manifest = None /\ result[p].vcs_info = None
        /\ ((\A j \in Indexes(p) : NoFailureAt(p, j)) /\ ~WithinCap(p)) =>
              /\ result[p].kind \in ReadErrors
              /\ yielded[p] = Len(tarball[p])
              /\ result[p].manifest = None /\ result[p].vcs_info = None

C15_Witness ==
    \E p \in invocations : Returned(p) /\
        \E i \in Indexes(p) :
            /\ 1 < i /\ i < Len(tarball[p])
            /\ LinkAt(p, i) /\ UnderRoot(p, i)
            /\ \A j \in 1..(i - 1) : NoFailureAt(p, j)
            /\ manifest[p] # None
            /\ CandidateAt(p, Len(tarball[p]))
            /\ result[p] = Err("UnexpectedSymlink", EntryAt(p, i).path, "")
            /\ yielded[p] = i - 1

\* the path with its `..` components resolved against what precedes them
RECURSIVE Resolve(_, _)
Resolve(path, seen) ==
    IF path = <<>> THEN seen
    ELSE IF Head(path) = ".." /\ seen # <<>> /\ seen[Len(seen)] # ".."
         THEN Resolve(Tail(path), SubSeq(seen, 1, Len(seen) - 1))
         ELSE Resolve(Tail(path), Append(seen, Head(path)))

\* the path of entry i, resolved, stays under "{name}-{version}/"
ResolvesUnderRoot(p, i) ==
    LET resolved == Resolve(EntryAt(p, i).path, <<>>)
    IN  resolved # <<>> /\ Head(resolved) = pkg_name[p]

\* C16: no archive the call accepts holds an entry whose path resolves outside
\* the package root, and such an entry (as {name}-{version}/../other-1.0.0/file)
\* is rejected with InvalidPath when no entry before it fails.
C16_NoTraversalAccepted ==
    \A p \in invocations : Returned(p) =>
        /\ result[p].kind = "Ok" => \A i \in Indexes(p) : ResolvesUnderRoot(p, i)
        /\ \A i \in Indexes(p) :
              (~ResolvesUnderRoot(p, i) /\ CleanBefore(p, i) /\ HeaderWithinCap(p, i))
                  => result[p] = Err("InvalidPath", EntryAt(p, i).path, "")

\* ------------------------------------------------------------ C13, C17, C18

\* the one manifest candidate of the archive is a file at {name}-{version}/cargo.toml
OnlyLowercaseManifest(p) ==
    /\ Cardinality(Candidates(p)) = 1
    /\ \A i \in Candidates(p) :
          EntryAt(p, i).path = <<pkg_name[p], "cargo.toml">> /\ ~LinkAt(p, i)

\* C13: a call on an archive whose only manifest entry is the lowercase
\* cargo.toml returns what the call returns on the archive that differs only in
\* naming that entry Cargo.toml: the same success value or the same error.
C13_LowercaseManifestSameOutcome ==
    \A p \in invocations : \A q \in invocations :
        (/\ Returned(p) /\ Returned(q)
         /\ pkg_name[p] = pkg_name[q] /\ max_unpack[p] = max_unpack[q]
         /\ OnlyLowercaseManifest(p)
         /\ tarball[q] = Uppercased(tarball[p]))
            => result[p] = result[q]

C13_Witness ==
    \E p \in invocations : \E q \in invocations :
        /\ Returned(p) /\ Returned(q)
        /\ pkg_name[p] = pkg_name[q] /\ max_unpack[p] = max_unpack[q]
        /\ OnlyLowercaseManifest(p)
        /\ tarball[q] = Uppercased(tarball[p]) /\ tarball[q] # tarball[p]
        /\ result[p].kind = "Ok" /\ result[q] = result[p]

SameArguments(p, q) ==
    /\ pkg_name[p] = pkg_name[q]
    /\ tarball[p] = tarball[q]
    /\ max_unpack[p] = max_unpack[q]

\* C17: two calls with equal arguments return equal outcomes, whether their
\* steps interleave or one is made after the other has returned, and whatever
\* other call was made before.
C17_EqualArgumentsEqualOutcomes ==
    \A p \in invocations : \A q \in invocations :
        (SameArguments(p, q) /\ Returned(p) /\ Returned(q)) => result[p] = result[q]

C17_Witness ==
    /\ 3 \in invocations
    /\ Returned(1) /\ Returned(2) /\ Returned(3)
    /\ SameArguments(3, 1) /\ ~SameArguments(1, 2)
    /\ result[2].kind = "Ok" /\ result[2].vcs_info # None
    /\ result[1].kind = "MissingManifest"
    /\ result[3] = result[1]

\* C18: under every interleaving of the steps of two calls, each call has the
\* byte counter, the captured manifest, the captured VCS info and the outcome
\* of the call that is made with its arguments while no other call is in
\* progress; and two calls in progress with equal arguments hold equal values
\* at equal points of their walks.
C18_InterleavedCallsAsAlone ==
    /\ \A p \in {1, 2} :
          (3 \in invocations /\ SameArguments(3, p) /\ Returned(3)) =>
              /\ emitted[p] = emitted[3]
              /\ manifest[p] = manifest[3]
              /\ vcs_info[p] = vcs_info[3]
              /\ result[p] = result[3]
    /\ (SameArguments(1, 2) /\ pc[1] = pc[2] /\ yielded[1] = yielded[2]) =>
          /\ emitted[1] = emitted[2]
          /\ manifest[1] = manifest[2]
          /\ vcs_info[1] = vcs_info[2]
          /\ result[1] = result[2]

C18_Witness ==
    /\ 3 \in invocations /\ Returned(3)
    /\ SameArguments(3, 1) /\ ~SameArguments(1, 2)
    /\ \E i \in VcsInfos(2) : VcsInfoParsedAt(2, i) # None
    /\ Candidates(1) # {} /\ VcsInfos(1) = {} /\ Len(tarball[1]) > 1
    /\ result[1].kind = "Ok" /\ result[2].kind = "Ok"
    /\ vcs_info[1] = None /\ vcs_info[2] # None
    /\ emitted[1] = emitted[3] /\ result[1] = result[3]

\* ------------------------------------------------------------ C19, C20

\* the first entry of the archive at {pkg_name}/Cargo.toml, the one
\* render_pkg_readme is to take the manifest from
RenderManifests == {i \in 1..Len(rd_archive) : rd_archive[i].path = <<rd_pkg_name, "Cargo.toml">>}

\* the content is the text of a manifest with a package table
ManifestParses(contents) ==
    contents.utf8 /\ contents.fmt = "toml" /\ contents.toml.table \in {"package", "project"}

\* where the manifest text says the readme is, relative to the package root
ReadmePlace(doc) ==
    IF "readme" \notin doc.present \/ doc.readme = "true" THEN <<"README.md">>
    ELSE IF doc.readme = "docs/README.md" THEN <<"docs", "README.md">>
    ELSE <<doc.readme>>

\* the UTF-8 entries of the archive at `place` under the package root
ReadmesAt(place) ==
    {i \in 1..Len(rd_archive) :
        rd_archive[i].path = <<rd_pkg_name>> \o place /\ rd_archive[i].contents.utf8}

\* the call returned the rendering of one of the entries at `place`
Rendered(place) ==
    /\ rd_result.kind = "Ok"
    /\ rd_result.html.some
    /\ rd_result.html.val.path = place
    /\ \E i \in ReadmesAt(place) : rd_result.html.val.text = rd_archive[i].contents.text

\* C19: when the manifest declares a readme and the archive holds an entry at
\* that path under the package root, render_pkg_readme renders it, wherever the
\* entry is in the archive, before the Cargo.toml entry included.
C19_ReadmeFoundAnywhere ==
    (rd_pc = "done" /\ RenderManifests # {}) =>
        LET text == rd_archive[First(RenderManifests)].contents
        IN  (/\ ManifestParses(text)
             /\ ~("readme" \in text.toml.present /\ text.toml.readme = "false")
             /\ ReadmesAt(ReadmePlace(text.toml)) # {})
                => Rendered(ReadmePlace(text.toml))

\* C20: a manifest that sets no readme field has the readme README.md at the
\* package root: process_tarball returns it with readme = Flag(true) and
\* render_pkg_readme renders the entry {pkg_name}/README.md; a readme written as
\* docs/README.md is rendered from the entry {pkg_name}/docs/README.md.
C20_DefaultReadme ==
    /\ (Returned(1) /\ result[1].kind = "Ok") =>
          LET text == EntryAt(1, Last(Candidates(1))).contents
          IN  "readme" \notin text.toml.present
                => result[1].manifest.val.package.val.readme = Set(Flag(TRUE))
    /\ (rd_pc = "done" /\ RenderManifests # {}) =>
          LET text == rd_archive[First(RenderManifests)].contents
          IN  ManifestParses(text) =>
                /\ ("readme" \notin text.toml.present /\ ReadmesAt(<<"README.md">>) # {})
                      => Rendered(<<"README.md">>)
                /\ (/\ "readme" \in text.toml.present
                    /\ text.toml.readme = "docs/README.md"
                    /\ ReadmesAt(<<"docs", "README.md">>) # {})
                      => Rendered(<<"docs", "README.md">>)

\* ------------------------------------------------------------ C27, C28

\* the entry the call ended on, when it ended before the end of the archive
EndedAt(p) == yielded[p] + 1
EndedOnEntry(p) ==
    Returned(p) /\ yielded[p] < Len(tarball[p]) /\ HeaderWithinCap(p, EndedAt(p))

\* what the entries before i left in the two locals of the walk
ManifestBefore(p, i) ==
    LET before == {j \in Candidates(p) : j < i}
    IN  IF before = {} THEN None ELSE Some(ParsedAt(p, Last(before)))
VcsInfoBefore(p, i) ==
    LET before == {j \in VcsInfos(p) : j < i}
    IN  IF before = {} THEN None
        ELSE ResultOk(CargoVcsInfo_from_contents(EntryAt(p, Last(before)).contents))

\* C27: within one entry the path test comes first, the link test second and
\* the dispatch on the path last. A call that ends on an entry which lies
\* outside the package root returns InvalidPath with its path, also when the
\* entry is a link; a call that ends on a link under the root returns
\* UnexpectedSymlink with its path. In both cases nothing of the entry's content
\* is read from the stream, and the manifest and the VCS info the walk holds are
\* those of the entries before it, also when the entry sits at the manifest
\* path or at the VCS-info path.
C27_PathThenLinkThenContent ==
    \A p \in invocations : EndedOnEntry(p) =>
        LET i == EndedAt(p)
        IN  /\ ~UnderRoot(p, i) =>
                  result[p] = Err("InvalidPath", EntryAt(p, i).path, "")
            /\ (UnderRoot(p, i) /\ LinkAt(p, i)) =>
                  result[p] = Err("UnexpectedSymlink", EntryAt(p, i).path, "")
            /\ (~UnderRoot(p, i) \/ LinkAt(p, i)) =>
                  /\ emitted[p] = HeaderOffset(tarball[p], i) + 1
                  /\ manifest[p] = ManifestBefore(p, i)
                  /\ vcs_info[p] = VcsInfoBefore(p, i)

\* a call ended with InvalidPath on a link that lies outside the package root
C27_Witness ==
    \E p \in invocations :
        /\ EndedOnEntry(p)
        /\ ~UnderRoot(p, EndedAt(p)) /\ LinkAt(p, EndedAt(p))
        /\ result[p].kind = "InvalidPath"

\* C28: a call that returns Ok has walked the whole archive; every entry lies
\* under the package root, none is a symlink or a hard link, and every entry at
\* the manifest path, the returned one and the others, holds a manifest that
\* parses and passes validate_manifest.
C28_SuccessInvariant ==
    \A p \in invocations : (Returned(p) /\ result[p].kind = "Ok") =>
        /\ yielded[p] = Len(tarball[p])
        /\ \A i \in Indexes(p) :
              /\ UnderRoot(p, i)
              /\ ~LinkAt(p, i)
              /\ CandidateAt(p, i) => ManifestAccepted(EntryAt(p, i).contents)

\* a call returned Ok on an archive with two manifest entries or more
C28_Witness ==
    \E p \in invocations :
        /\ Returned(p) /\ result[p].kind = "Ok"
        /\ Cardinality(Candidates(p)) >= 2
        /\ Len(tarball[p]) = MaxEntries

\* ------------------------------------------------------------ C25, C26

\* the archive without its entries outside the package root and its links
WithoutForeignEntries(archive, name) ==
    LET Kept(e) == e.path # <<>> /\ Head(e.path) = name
                   /\ e.entry_type \notin {"Symlink", "Link"}
    IN  SelectSeq(archive, Kept)

\* C25: render_pkg_readme only parses the manifest. When the Cargo.toml entry
\* parses but validate_manifest would reject it (an inherited field, a
\* rust-version that is no bare version), and it names a readme that the
\* archive holds, that readme is rendered; and entries outside the package
\* root and link entries change nothing in what the call returns.
C25_ParseOnly ==
    rd_pc = "done" =>
        /\ RenderManifests # {} =>
              LET text == rd_archive[First(RenderManifests)].contents
              IN  (/\ ManifestParses(text)
                   /\ ~ManifestAccepted(text)
                   /\ "readme" \in text.toml.present
                   /\ "readme" \notin text.toml.inherit
                   /\ text.toml.readme # "false"
                   /\ ReadmesAt(ReadmePlace(text.toml)) # {})
                      => Rendered(ReadmePlace(text.toml))
        /\ rd_result = render_pkg_readme(WithoutForeignEntries(rd_archive, rd_pkg_name),
                                         rd_pkg_name)

\* C26: every archive process_tarball accepts for pkg_name has its manifest
\* located by render_pkg_readme for the same pkg_name, the archives whose
\* manifest is at the lowercase cargo.toml included: the call does not fail to
\* find or to parse the manifest.
C26_ManifestLocated ==
    (Returned(1) /\ result[1].kind = "Ok" /\ rd_pc = "done") =>
        rd_result \notin {RenderErr("Failed to read Cargo.toml file"),
                          RenderErr("Failed to parse manifest file")}

\* ------------------------------------------------------------ C21, C22

\* the objects of the store and of the index bucket after call k of the log
StoreAfter(k) == IF k < Len(st_log) THEN st_log[k + 1].store ELSE st_store
IndexAfter(k) == IF k < Len(st_log) THEN st_log[k + 1].index ELSE st_index

\* the location is under "{kind}/{name}/"
ObjectUnder(location, kind, name) ==
    Len(location.dir) >= 2 /\ location.dir[1] = kind /\ location.dir[2] = name

\* call k, a deletion of everything under "{kind}/{name}/", left every object
\* that is not under it as it was, added none, and removed them all if it
\* returned Ok
DeletedExactly(k, kind, name) ==
    LET before == st_log[k].store
        after == StoreAfter(k)
    IN  /\ DOMAIN after \subseteq DOMAIN before
        /\ \A q \in DOMAIN before :
              ~ObjectUnder(q, kind, name) => (q \in DOMAIN after /\ after[q] = before[q])
        /\ \A q \in DOMAIN after : after[q] = before[q]
        /\ st_log[k].ok =>
              \A q \in DOMAIN before : ObjectUnder(q, kind, name) => q \notin DOMAIN after
        /\ IndexAfter(k) = st_log[k].index

\* C21: delete_all_crate_files(name) removes exactly the objects under
\* crates/{name}/ and delete_all_readmes(name) exactly those under
\* readmes/{name}/: every other object, those of other crates, of crates whose
\* name begins with name, of the other kind and of the index, is left as it
\* was, also when the call fails part of the way.
C21_DeleteAllRemovesExactly ==
    \A k \in 1..Len(st_log) :
        /\ st_log[k].fn = "delete_all_crate_files" =>
              DeletedExactly(k, PREFIX_CRATES, st_log[k].name)
        /\ st_log[k].fn = "delete_all_readmes" =>
              DeletedExactly(k, PREFIX_READMES, st_log[k].name)

\* delete_all_crate_files("foo") returned Ok on a store that held crate files
\* of foo, of foobar and readmes of foo
C21_Witness ==
    \E k \in 1..Len(st_log) :
        /\ st_log[k].fn = "delete_all_crate_files" /\ st_log[k].name = "foo" /\ st_log[k].ok
        /\ \E q \in DOMAIN st_log[k].store : ObjectUnder(q, PREFIX_CRATES, "foo")
        /\ \E q \in DOMAIN st_log[k].store : ObjectUnder(q, PREFIX_CRATES, "foobar")
        /\ \E q \in DOMAIN st_log[k].store : ObjectUnder(q, PREFIX_READMES, "foo")
        /\ \A q \in DOMAIN StoreAfter(k) : ~ObjectUnder(q, PREFIX_CRATES, "foo")

\* calls k and k + 1 are sync_index(name, Some(content)) and sync_index(name, None)
SyncPairAt(k) ==
    /\ k + 1 <= Len(st_log)
    /\ st_log[k].fn = "sync_index_some" /\ st_log[k].ok
    /\ st_log[k + 1].fn = "sync_index_none" /\ st_log[k + 1].ok
    /\ st_log[k + 1].name = st_log[k].name

\* where the index file of the crate is: in the index bucket of the S3
\* backend, under index/ in the store of the others
IndexObjects(store, index) == IF st_backend = "S3" THEN index ELSE store
IndexLocation(name) ==
    IF st_backend = "S3" THEN relative_index_file_for_url(name)
    ELSE [relative_index_file_for_url(name) EXCEPT !.dir = <<"index">> \o @]

\* C22, as stated: sync_index(name, Some(content)) followed by
\* sync_index(name, None) returns the store to the state it had before the pair.
C22_SyncPairRestoresStore ==
    \A k \in 1..Len(st_log) : SyncPairAt(k) =>
        /\ StoreAfter(k + 1) = st_log[k].store
        /\ IndexAfter(k + 1) = st_log[k].index

\* the objects `after` are the objects `before` with the one at `location`
\* set to bytes
SameButPut(after, before, location, bytes) ==
    /\ DOMAIN after = DOMAIN before \cup {location}
    /\ after[location] = bytes
    /\ \A q \in DOMAIN before \ {location} : after[q] = before[q]
\* the objects `after` are the objects `before` without the one at `location`
SameButRemoved(after, before, location) ==
    /\ DOMAIN after = DOMAIN before \ {location}
    /\ \A q \in DOMAIN after : after[q] = before[q]

\* C22: sync_index(name, Some(content)) stores content at the index path of
\* name and changes nothing else; a following sync_index(name, None) removes that
\* object and changes nothing else. The pair returns the store to the state it
\* had before when no object was stored at that path before (an empty store is
\* empty again); an object stored there before the pair is gone after it.
C22_SyncPairRemovesIndexFile ==
    \A k \in 1..Len(st_log) : SyncPairAt(k) =>
        LET location == IndexLocation(st_log[k].name)
            before == IndexObjects(st_log[k].store, st_log[k].index)
            between == IndexObjects(StoreAfter(k), IndexAfter(k))
            after == IndexObjects(StoreAfter(k + 1), IndexAfter(k + 1))
        IN  /\ SameButPut(between, before, location, st_log[k].content)
            /\ SameButRemoved(after, before, location)
            /\ location \notin DOMAIN before =>
                  (StoreAfter(k + 1) = st_log[k].store /\ IndexAfter(k + 1) = st_log[k].index)
            /\ st_backend = "S3" =>
                  (StoreAfter(k) = st_log[k].store /\ StoreAfter(k + 1) = st_log[k].store)
            /\ st_backend # "S3" =>
                  (IndexAfter(k) = st_log[k].index /\ IndexAfter(k + 1) = st_log[k].index)

\* the pair was made on an empty store, which is empty again, the index file
\* having been there in between
C22_Witness ==
    \E k \in 1..Len(st_log) :
        /\ SyncPairAt(k)
        /\ st_log[k].store = NoObjects /\ st_log[k].index = NoObjects
        /\ IndexLocation(st_log[k].name) \in DOMAIN IndexObjects(StoreAfter(k), IndexAfter(k))
        /\ st_store = NoObjects /\ st_index = NoObjects

\* ------------------------------------------------------------ C23, C29

NewReturned == pl_call.fn = "new" /\ pl_call.result # "Pending"
GetReturned == pl_call.fn = "get" /\ pl_call.result # "Pending"

\* C23: DieselPool::new does not fail because the database is unreachable.
\* When the health wait ends with no connection and the pool has none, new
\* returns Ok with the pool unhealthy; when the wait gets a connection new
\* returns Ok; new returns Err only when the wait ended with no connection
\* while the pool had at least one; and with the database down new returns Ok.
C23_NewSurvivesUnreachableDatabase ==
    NewReturned =>
        /\ pl_call.result \in {"Ok", "R2D2"}
        /\ (pl_call.no_connection /\ pl_call.observed = 0) =>
              (pl_call.result = "Ok" /\ pl_call.checked)
        /\ ~pl_call.no_connection => pl_call.result = "Ok"
        /\ pl_call.result # "Ok" =>
              (pl_call.no_connection /\ pl_call.checked /\ pl_call.observed > 0)
        /\ ~pl_db_up => (pl_call.result = "Ok" /\ pl_connections = 0)

\* new returned Ok after a health wait that ended with no connection, the
\* database being down and the pool unhealthy
C23_Witness ==
    /\ NewReturned /\ pl_call.result = "Ok"
    /\ pl_call.no_connection /\ pl_call.checked /\ pl_call.observed = 0
    /\ ~pl_db_up /\ pl_connections = 0

\* C29: get on the Pool variant enters the blocking pool.get() only after
\* try_get returned no connection and the pool was seen with at least one
\* connection; when try_get returns none and the pool is seen with zero
\* connections it returns UnhealthyPool without blocking, and it returns
\* UnhealthyPool in no other case. get on the BackgroundJobPool variant always
\* enters the blocking pool.get() and never returns UnhealthyPool.
C29_GetNeverBlocksWhenUnhealthy ==
    pl_call.fn = "get" =>
        /\ pl_variant = "Pool" =>
              /\ pl_call.blocked =>
                    (pl_call.no_connection /\ pl_call.checked /\ pl_call.observed > 0)
              /\ (pl_call.checked /\ pl_call.observed = 0) =>
                    (pl_call.result = "UnhealthyPool" /\ ~pl_call.blocked)
              /\ pl_call.result = "UnhealthyPool" =>
                    (pl_call.no_connection /\ pl_call.checked /\ pl_call.observed = 0)
              /\ (GetReturned /\ ~pl_call.no_connection) =>
                    (pl_call.result = "Ok" /\ ~pl_call.blocked)
        /\ pl_variant = "BackgroundJobPool" =>
              (pl_call.blocked /\ ~pl_call.checked /\ pl_call.result # "UnhealthyPool")
        /\ pl_pc = "get_blocking" <=> (pl_call.blocked /\ pl_call.result = "Pending")

\* get returned UnhealthyPool at once on a Pool that had connections before
\* and could get new ones
C29_Witness ==
    /\ pl_variant = "Pool" /\ GetReturned
    /\ pl_call.result = "UnhealthyPool" /\ ~pl_call.blocked
    /\ pl_call.observed = 0 /\ pl_db_up

\* ------------------------------------------------------------ C24, C30

\* the render threads spawned and not yet joined
Spawned == {v \in 1..rn_total : rn_threads[v] # "none"}
Joined ==
    {v \in Spawned : PageOf(v) < rn_page \/ (PageOf(v) = rn_page /\ \E i \in 1..rn_joined : rn_tasks[i] = v)}
LiveThreads == Spawned \ Joined

\* C24: run handles at most page_size versions at a time: the threads of a
\* page are all joined before a thread of the next page is spawned, so the
\* threads spawned and not yet joined all belong to the page in progress and
\* are never more than page_size, whatever page_size >= 1 and the number of
\* versions are.
C24_AtMostPageSizeThreads ==
    /\ Cardinality(LiveThreads) <= rn_page_size
    /\ \A v \in Spawned :
          /\ PageOf(v) <= rn_page
          /\ PageOf(v) < rn_page => (rn_threads[v] # "running" /\ v \in Joined)
    /\ \A v \in LiveThreads : PageOf(v) = rn_page
    /\ rn_pc \in {"recording", "spawning"} =>
          \A v \in Spawned : rn_threads[v] = "running" => PageOf(v) = PageOf(rn_next)

\* a full page of threads is running while an earlier page was joined and a
\* later one is still to come
C24_Witness ==
    /\ rn_page_size = MaxPageSize
    /\ rn_page >= 1
    /\ Cardinality({v \in LiveThreads : rn_threads[v] = "running"}) = rn_page_size
    /\ rn_page + 1 < total_pages

\* C30: a version is recorded as rendered before its thread is spawned; a
\* thread that returns an error or panics is only printed when it is joined,
\* and its version stays recorded; run returns Ok after all versions of all
\* pages were recorded, spawned and joined whatever their threads returned,
\* and it returns Err exactly when record_readme_rendering failed.
C30_ThreadFailuresOnlyLogged ==
    /\ Spawned \subseteq rn_recorded
    /\ rn_pc = "spawning" => rn_next \in rn_recorded
    /\ rn_logged = {v \in Joined : rn_threads[v] \in {"err", "panic"}}
    /\ rn_logged \subseteq rn_recorded
    /\ rn_result = "Err" <=> rn_record_failed
    /\ rn_result = "Ok" =>
          /\ rn_recorded = 1..rn_total
          /\ Joined = 1..rn_total
    /\ (rn_pc = "done" /\ ~rn_record_failed /\ rn_result # "Panic") => rn_result = "Ok"

\* run returned Ok though a thread of the first page returned an error and
\* one of a later page panicked
C30_Witness ==
    /\ rn_result = "Ok"
    /\ \E v, w \in 1..rn_total :
          /\ PageOf(v) < PageOf(w)
          /\ rn_threads[v] = "err" /\ rn_threads[w] = "panic"
          /\ {v, w} \subseteq rn_logged \cap rn_recorded

====
